---- MODULE Spec2Model ----
(***************************************************************************)
(* Model of the agentsv2 disruption workflow engine                        *)
(* (backend/app/agentsv2: workflow.py, agents.py, state.py, tools.py and   *)
(* services/predictive_signals.py).                                        *)
(*                                                                         *)
(* Python dicts are functions from string keys to values; a key that is    *)
(* absent from the dict is absent from the DOMAIN.  Probabilities and      *)
(* scores are fixed-point numbers in units of 1/10000 (0.6 is 6000).       *)
(***************************************************************************)
EXTENDS Integers, Sequences, FiniteSets, TLC

VARIABLES
    state,          \* the DisruptionState object of the run
    llm_available,  \* whether get_llm() yields a client (else LLMProviderError)
    pc,             \* position of DisruptionWorkflowADK.run
    task,           \* position of each asyncio task of the two gathers
    locals,         \* locals each task holds across its backend await
    exc,            \* exception caught by run's except clause ("" if none)
    output,         \* value returned by run (Nothing before it returns)
    invoked,        \* agents whose run() has been called, in call order
    llm_calls,      \* number of backend calls each agent has issued
    llm_results,    \* kind of value _invoke_llm_json returned to each agent
    writes,         \* state fields each agent has assigned or mutated
    agent_llm,      \* _llm / _llm_failed of each agent of the cached workflow
    requests,       \* the requests served by the cached workflow instance
    tool            \* a function called on its own: its arguments and result

vars == <<state, llm_available, pc, task, locals, exc, output,
          invoked, llm_calls, llm_results, writes, agent_llm, requests,
          tool>>

----------------------------------------------------------------------------
(* Bounds of the model *)

MaxFlights == 1

----------------------------------------------------------------------------
(* Python dict helpers *)

EmptyDict == <<>>

Get(d, k, default) == IF k \in DOMAIN d THEN d[k] ELSE default

\* dict.update(): keys of e override keys of d
Update(d, e) == [k \in (DOMAIN d) \cup (DOMAIN e) |->
                    IF k \in DOMAIN e THEN e[k] ELSE d[k]]

Restrict(d, ks) == [k \in (DOMAIN d) \cap ks |-> d[k]]

Min(a, b) == IF a < b THEN a ELSE b
Max(a, b) == IF a > b THEN a ELSE b

Nothing == [kind |-> "none"]

Last(s) == s[Len(s)]

Agents == {"PredictiveAgent", "OrchestratorAgent", "RiskAgent",
           "RebookingAgent", "FinanceAgent", "CrewAgent", "AggregatorAgent"}

LLMAgents == {"OrchestratorAgent", "RiskAgent", "RebookingAgent",
              "FinanceAgent", "CrewAgent"}

TaskAgents == {"RiskAgent", "RebookingAgent", "FinanceAgent", "CrewAgent"}

----------------------------------------------------------------------------
(* state.py *)

\* DisruptionState(input_data=flight_data): every accumulator starts empty
create_initial_state(flight_data) ==
    [ input_data          |-> flight_data,
      disruption_detected |-> FALSE,
      risk_assessment     |-> EmptyDict,
      signal_breakdown    |-> EmptyDict,
      rebooking_plan      |-> EmptyDict,
      finance_estimate    |-> EmptyDict,
      crew_rotation       |-> EmptyDict,
      simulation_results  |-> <<>>,
      what_if_templates   |-> <<>>,
      audit_log           |-> <<>>,
      decision_log        |-> <<>>,
      final_plan          |-> EmptyDict,
      progress_updates    |-> <<>> ]

\* The timestamp is the reading of a clock that ticks once per log call.
\* input_ref / output_ref name the state field whose dict object the entry
\* holds by reference ("" when the entry holds an object of its own).
log_reasoning(s, agent_name, input_data, input_ref, out, output_ref) ==
    [s EXCEPT !.audit_log = Append(@,
        [ agent      |-> agent_name,
          input      |-> input_data,
          input_ref  |-> input_ref,
          output     |-> out,
          output_ref |-> output_ref,
          timestamp  |-> Len(s.audit_log) + Len(s.decision_log) + 1 ])]

\* Fault model: a record_decision that stores the tag list as it was given
record_decision_untagged(s, agent_name, decision, category, scenarios, data) ==
    [s EXCEPT !.decision_log = Append(@,
        [ agent     |-> agent_name,
          decision  |-> decision,
          category  |-> IF category = "" THEN "general" ELSE category,
          scenarios |-> scenarios,
          data      |-> data,
          timestamp |-> Len(s.audit_log) + Len(s.decision_log) + 1 ])]

\* scenarios or ["global"]: an empty or missing tag list becomes the sentinel
record_decision(s, agent_name, decision, category, scenarios, data) ==
    [s EXCEPT !.decision_log = Append(@,
        [ agent     |-> agent_name,
          decision  |-> decision,
          category  |-> IF category = "" THEN "general" ELSE category,
          scenarios |-> IF scenarios = <<>> THEN <<"global">> ELSE scenarios,
          data      |-> data,
          timestamp |-> Len(s.audit_log) + Len(s.decision_log) + 1 ])]

record_progress(s, agent_name, status) ==
    [s EXCEPT !.progress_updates = Append(@, <<agent_name, status>>)]

\* In-place mutation of the risk_assessment dict object: every audit entry
\* that holds that object by reference shows the mutated dict.
MutateRiskAssessment(s, newRA) ==
    LET Deref(ref, old) ==
            IF ref = "risk_assessment" THEN newRA
            ELSE IF ref = "risk_assessment.nested" THEN [risk |-> newRA]
            ELSE old
    IN  [s EXCEPT !.risk_assessment = newRA,
                  !.audit_log = [i \in DOMAIN s.audit_log |->
                      [s.audit_log[i] EXCEPT
                         !.input  = Deref(s.audit_log[i].input_ref, @),
                         !.output = Deref(s.audit_log[i].output_ref, @)]]]

----------------------------------------------------------------------------
(* Input payloads *)

\* stats of the payload, as the providers build it: always a dict
StatsChoices ==
    { [weatherScore |-> 8000, aircraftScore |-> 6000, crewScore |-> 5000],
      [weatherScore |-> 1000, aircraftScore |-> 1000, crewScore |-> 1000,
       paxImpacted |-> 120] }

FlightKinds ==
    { [statusCategory |-> "critical", id |-> "CX888",
       scheduledDeparture |-> "2025-12-01T10:00:00Z"],
      [statusCategory |-> "normal",   id |-> "CX520",
       scheduledDeparture |-> "2025-12-01T12:00:00Z"] }

Flight(kind) == CHOOSE f \in FlightKinds : f.statusCategory = kind

\* Payloads of n flights, c of them critical (the critical ones first)
FlightChoices ==
    { [i \in 1..n |-> IF i <= c THEN Flight("critical") ELSE Flight("normal")] :
        <<n, c>> \in { nc \in (0..MaxFlights) \X (0..MaxFlights) :
                         nc[2] <= nc[1] } }

\* disruption: "absent" (no key), "empty" ({}), "present" (non-empty record)
Inputs ==
    { [disruption |-> d, stats |-> st, flights |-> fl] :
        d \in {"absent", "empty", "present"},
        st \in StatsChoices,
        fl \in FlightChoices }

----------------------------------------------------------------------------
(* services/predictive_signals.py *)

clamp(value) == Max(0, Min(9800, value))

\* data: what the scorers read from the payload.  The list-valued keys
\* (alerts, flights, crewPanels, aircraftPanels) are represented by the
\* counts the scorers derive from them; a missing key counts as zero.
score_weather(data) ==
    LET alert_hits  == Get(data, "alert_hits", 0)
        flight_hits == Get(data, "flight_hits", 0)
        avg_delay   == Get(data.stats, "avgDelayMinutes", 0)
        raw_score   == 1500 * alert_hits + 1000 * flight_hits
                       + Min(3000, (avg_delay * 10000) \div 120)
    IN  clamp(raw_score)

score_crew(data) ==
    LET flights_not_ready == Get(data, "flights_crew_not_ready", 0)
        fatigue_hits      == Get(data, "fatigue_hits", 0)
        standby_needed    == Get(data, "standby_needed", 0)
        total_crews       == Max(1, Get(data, "crew_panels", 0))
        utilization       == 10000 - (standby_needed * 10000) \div total_crews
        raw_score         == 2000 * flights_not_ready + 1000 * fatigue_hits
                             + 500 * standby_needed
                             + Max(0, 2500 - (utilization * 2500) \div 10000)
    IN  clamp(raw_score)

score_aircraft(data) ==
    LET aircraft_not_ready == Get(data, "flights_aircraft_not_ready", 0)
        mx_holds           == Get(data, "mx_holds", 0)
        raw_score          == 2000 * aircraft_not_ready + 1500 * mx_holds
    IN  clamp(raw_score)

compute_predictive_signals(data) ==
    LET stats          == data.stats
        total          == Max(1, Get(stats, "totalFlights", 1))
        delayed_ratio  == (Get(stats, "delayed", 0) * 10000) \div total
        critical_ratio == (Get(stats, "critical", 0) * 10000) \div total
        weather        == score_weather(data)
        crew           == score_crew(data)
        aircraft       == score_aircraft(data)
        weighted       == (4000 * weather + 3000 * crew + 3000 * aircraft
                           + 1500 * delayed_ratio + 2500 * critical_ratio)
                          \div 10000
        risk_probability == clamp(weighted)
        detected       == risk_probability >= 6000 \/ critical_ratio > 1500
    IN  [ disruption_detected |-> detected,
          risk_probability    |-> risk_probability,
          reasoning           |-> "Weather/Aircraft/Crew evidence",
          metrics             |-> [total_flights |-> total],
          signal_breakdown    |-> [weather |-> weather, aircraft |-> aircraft,
                                   crew |-> crew],
          drivers             |-> <<weather, aircraft, crew>> ]

----------------------------------------------------------------------------
(* tools.py *)

\* payload is Nothing when the caller passes none (PredictiveAgent never
\* passes one): the tool then scores a payload holding only the three
\* readiness scores.
predictive_signal_tool(airport, carrier, weather_score, aircraft_score, crew_score, payload) ==
    LET input_data ==
          IF payload # Nothing
          THEN Update(payload,
                      [stats |-> Update([weatherScore  |-> weather_score,
                                         aircraftScore |-> aircraft_score,
                                         crewScore     |-> crew_score],
                                        payload.stats)])
          ELSE [ airport |-> airport,
                 carrier |-> carrier,
                 stats   |-> [weatherScore  |-> weather_score,
                              aircraftScore |-> aircraft_score,
                              crewScore     |-> crew_score] ]
    IN  compute_predictive_signals(input_data)

----------------------------------------------------------------------------
(* agents.py: the reasoning backend helper *)

\* A parsed JSON value: kind is "dict", "list" (a non-empty list),
\* "empty_list" or "null".  For a dict, d holds the keys with non-null
\* values and nulls the keys whose value is null.
JsonDict(d, nulls) == [kind |-> "dict", d |-> d, nulls |-> nulls]
JsonList      == [kind |-> "list", d |-> EmptyDict, nulls |-> {}]
JsonEmptyList == [kind |-> "empty_list", d |-> EmptyDict, nulls |-> {}]
JsonNull      == [kind |-> "null", d |-> EmptyDict, nulls |-> {}]
NoValue       == [kind |-> "none", d |-> EmptyDict, nulls |-> {}]

\* Python truthiness of what _invoke_llm_json returned
Truthy(v) ==
    \/ v.kind = "list"
    \/ v.kind = "dict" /\ (DOMAIN v.d) \cup v.nulls # {}

Fences == {"plain", "json", "bare", "bare_lang"}

\* The text of a backend response: an optional Markdown fence around a
\* body that is empty, not JSON ("garbage"), or the JSON text of value.
Texts(values) ==
    { [fence |-> f, body |-> b, value |-> v] :
        f \in Fences, b \in {"json"}, v \in values }
    \cup
    { [fence |-> f, body |-> b, value |-> NoValue] :
        f \in Fences, b \in {"empty", "garbage"} }

\* "```json" fence: the text between the fences; a text starting with a
\* bare "```": the backticks are stripped, which leaves a language tag in
\* front of the body when the fence carried one; then json.loads.
parse_json_block(text) ==
    LET snippet_body ==
          IF text.fence = "bare_lang"
          THEN "garbage"
          ELSE text.body
    IN  IF snippet_body = "empty" THEN NoValue
        ELSE IF snippet_body = "garbage" THEN NoValue
        ELSE IF text.value.kind = "null" THEN NoValue
        ELSE text.value

\* Exceptions of the backend helper's code paths.  get_llm raises
\* LLMProviderError (llm.py); the client's call raises one of CallErrors;
\* json.loads raises JSONDecodeError.
CallErrors == {"APIError", "TimeoutError"}

\* isinstance(e, cls) along the exception class hierarchy
IsInstance(e, cls) ==
    \/ cls = e
    \/ cls = "Exception"
    \/ cls = "RuntimeError" /\ e = "LLMProviderError"
    \/ cls = "ValueError" /\ e = "JSONDecodeError"

\* response.content: a str, a list of parts (text is their join with
\* newlines), or any other object
Contents(values) ==
    { [kind |-> "str", text |-> t] : t \in Texts(values) }
    \cup
    { [kind |-> "list", text |-> t] :
        t \in {x \in Texts(values) : x.fence = "plain"} }
    \cup
    { [kind |-> "object",
       text |-> [fence |-> "plain", body |-> "empty", value |-> NoValue]] }

\* _content_to_text: a str as it is, the parts of a list joined, and
\* str(content) of any other object, which is not a JSON document
content_to_text(content) ==
    IF content.kind = "object"
    THEN [fence |-> "plain", body |-> "garbage", value |-> NoValue]
    ELSE content.text

\* Outcomes of one backend call: the call raises, or returns a response
Responses(values) ==
    { [tag |-> "error", error |-> e,
       content |-> [kind |-> "object",
                    text |-> [fence |-> "plain", body |-> "empty",
                              value |-> NoValue]]] : e \in CallErrors }
    \cup { [tag |-> "text", error |-> "", content |-> c] :
             c \in Contents(values) }

\* The exception _parse_json_block lets escape, "" if none: json.loads
\* raises on a text that is not JSON, inside "except json.JSONDecodeError"
parse_json_block_raises(text) ==
    LET snippet_body ==
          IF text.fence = "bare_lang" THEN "garbage" ELSE text.body
        loads == IF snippet_body = "garbage" THEN "JSONDecodeError" ELSE ""
    IN  IF loads # "" /\ ~IsInstance(loads, "JSONDecodeError")
        THEN loads
        ELSE ""

\* Fault model: a helper that handles connection errors only
invoke_llm_json_raises_uncaught(available, response) ==
    LET get_llm == IF available THEN "" ELSE "LLMProviderError"
    IN  IF get_llm # ""
        THEN IF IsInstance(get_llm, "LLMProviderError") THEN "" ELSE get_llm
        ELSE IF response.tag = "error"
        THEN IF IsInstance(response.error, "APIError")
             THEN ""
             ELSE response.error
        ELSE parse_json_block_raises(content_to_text(response.content))

\* The exception _ensure_llm + _invoke_llm_json let escape, "" if none:
\* get_llm raises inside "except LLMProviderError", the call inside
\* "except Exception"
invoke_llm_json_raises(available, response) ==
    LET get_llm == IF available THEN "" ELSE "LLMProviderError"
    IN  IF get_llm # ""
        THEN IF IsInstance(get_llm, "LLMProviderError") THEN "" ELSE get_llm
        ELSE IF response.tag = "error"
        THEN IF IsInstance(response.error, "Exception")
             THEN ""
             ELSE response.error
        ELSE parse_json_block_raises(content_to_text(response.content))

\* _ensure_llm + _invoke_llm_json: no client, or a failed call, give None
invoke_llm_json(available, response) ==
    IF ~available THEN NoValue
    ELSE IF response.tag = "error" THEN NoValue
    ELSE parse_json_block(content_to_text(response.content))

\* The helper is called where no backend call is reached
NoResponse ==
    [tag |-> "error", error |-> "",
     content |-> [kind |-> "object",
                  text |-> [fence |-> "plain", body |-> "empty",
                            value |-> NoValue]]]

----------------------------------------------------------------------------
(* agents.py: PredictiveAgent *)

\* Fault model: a Predictive stage that scores every payload and never
\* looks at the ground-truth record
PredictiveAgent_run_ignoring_ground_truth(s) ==
    LET stats  == s.input_data.stats
        result == predictive_signal_tool("HKG", "CX",
                      Get(stats, "weatherScore", 5000),
                      Get(stats, "aircraftScore", 5000),
                      Get(stats, "crewScore", 5000),
                      Nothing)
        s1 == [s EXCEPT !.disruption_detected = result.disruption_detected,
                        !.risk_assessment = result,
                        !.signal_breakdown = result.signal_breakdown]
    IN  log_reasoning(s1, "PredictiveAgent", s.input_data, "input_data",
                      result, "risk_assessment")

\* Fault model: a Predictive stage whose ground-truth path records no
\* audit entry
PredictiveAgent_run_unlogged(s) ==
    IF s.input_data.disruption = "present"
    THEN [s EXCEPT !.disruption_detected = TRUE,
                   !.risk_assessment = [risk_probability |-> 10000,
                                        reasoning |-> "Confirmed disruption"],
                   !.signal_breakdown = EmptyDict]
    ELSE LET result == predictive_signal_tool("HKG", "CX", 5000, 5000, 5000,
                                              Nothing)
             s1 == [s EXCEPT !.disruption_detected = result.disruption_detected,
                             !.risk_assessment = result,
                             !.signal_breakdown = result.signal_breakdown]
         IN  log_reasoning(s1, "PredictiveAgent", s.input_data,
                           "input_data", result, "risk_assessment")

PredictiveAgent_run(s) ==
    IF s.input_data.disruption = "present"
    THEN LET ra == [risk_probability |-> 10000,
                    reasoning |-> "Confirmed disruption"]
             s1 == [s EXCEPT !.disruption_detected = TRUE,
                             !.risk_assessment = ra,
                             !.signal_breakdown = EmptyDict]
         IN  log_reasoning(s1, "PredictiveAgent", s.input_data, "input_data",
                           ra, "risk_assessment")
    ELSE LET stats  == s.input_data.stats
             result == predictive_signal_tool("HKG", "CX",
                           Get(stats, "weatherScore", 5000),
                           Get(stats, "aircraftScore", 5000),
                           Get(stats, "crewScore", 5000),
                           Nothing)
             s1 == [s EXCEPT !.disruption_detected = result.disruption_detected,
                             !.risk_assessment = result,
                             !.signal_breakdown =
                                 Get(result, "signal_breakdown", EmptyDict)]
             s2 == log_reasoning(s1, "PredictiveAgent", s.input_data,
                                 "input_data", result, "risk_assessment")
             scenarios == IF s2.disruption_detected
                          THEN <<"delay_3hr", "crew_unavailable">>
                          ELSE <<"global">>
         IN  record_decision(s2, "PredictiveAgent",
                 "Calculated predictive disruption risk", "prediction",
                 scenarios,
                 [risk_probability |-> result.risk_probability,
                  disruption_detected |-> s2.disruption_detected])

\* What an agent's run() did: the state it left and whether it raised
Returned(s)      == [state |-> s, raised |-> FALSE, error |-> ""]
Raised(s, error) == [state |-> s, raised |-> TRUE,  error |-> error]

\* "await self._invoke_llm_json(prompt)" inside run(): an exception that
\* escapes the helper leaves run() there, else run() goes on to r
AfterHelper(s, available, response, r) ==
    LET e == invoke_llm_json_raises(available, response)
    IN  IF e # "" THEN Raised(s, e) ELSE r

Keys(v) == (DOMAIN v.d) \cup v.nulls

----------------------------------------------------------------------------
(* agents.py: OrchestratorAgent *)

JsonStr == [kind |-> "str", d |-> EmptyDict, nulls |-> {}]

Template(d) == JsonDict(d, {})

calculate_severity(risk_prob) ==
    IF risk_prob > 8000 THEN "critical"
    ELSE IF risk_prob > 6000 THEN "high"
    ELSE IF risk_prob > 4000 THEN "medium"
    ELSE "low"

fallback_plan(s, risk) ==
    [ requires_intervention |-> s.disruption_detected,
      severity  |-> calculate_severity(Get(risk, "risk_probability", 0)),
      main_plan |-> [description |->
                         "Coordinate multi-agent response to disruption"],
      what_if_scenarios |->
        << Template([scenario |-> "delay_3hr",
                     plan |-> [description |->
                                   "Extended delay requiring hotels"]]),
           Template([scenario |-> "crew_unavailable",
                     plan |-> [description |->
                                   "Crew duty limit exceeded"]]) >>,
      reasoning |-> "Heuristic fallback" ]

\* Parsed values the backend can hand to the Orchestrator
OrchestratorValues ==
    LET full == [ requires_intervention |-> TRUE,
                  severity  |-> "high",
                  main_plan |-> [description |-> "LLM plan"],
                  what_if_scenarios |->
                    << Template([scenario |-> "delay_3hr",
                                 plan |-> [description |-> "LLM delay"]]),
                       Template([scenario |-> "crew_unavailable",
                                 plan |-> [description |-> "LLM crew"]]) >>,
                  reasoning |-> "LLM" ]
    IN  { JsonNull, JsonList, JsonEmptyList,
          JsonDict(EmptyDict, {}),
          JsonDict(full, {}),
          JsonDict(Restrict(full, {"severity", "reasoning"}), {}),
          JsonDict(Restrict(full, {"requires_intervention", "severity",
                                   "main_plan"}), {}),
          JsonDict(Update(full, [what_if_scenarios |-> <<JsonStr>>]), {}) }

\* v: what _invoke_llm_json returned
OrchestratorAgent_run(s, v) ==
    LET risk == s.risk_assessment
        out  == IF Truthy(v) THEN v.d ELSE fallback_plan(s, risk)
    IN  IF Truthy(v) /\ v.kind # "dict"
        THEN Raised(s, "AttributeError: no attribute 'get'")
        ELSE
        LET s1 == [s EXCEPT !.what_if_templates =
                                Get(out, "what_if_scenarios", <<>>)]
        IN  IF Truthy(v) /\ ~({"requires_intervention", "severity"}
                               \subseteq Keys(v))
            THEN Raised(s1, "KeyError")
            ELSE
            LET s2 == log_reasoning(s1, "OrchestratorAgent",
                                    [risk |-> risk], "risk_assessment.nested",
                                    out, "")
            IN  Returned(record_decision(s2, "OrchestratorAgent",
                    "Coordinated disruption response plan", "orchestration",
                    <<"delay_3hr", "crew_unavailable">>,
                    Restrict(out, {"requires_intervention", "severity",
                                   "main_plan"})))

----------------------------------------------------------------------------
(* agents.py: RiskAgent *)

estimate_duration(risk_data) ==
    LET risk_prob == Get(risk_data, "risk_probability", 5000)
    IN  IF risk_prob > 8000 THEN 240
        ELSE IF risk_prob > 6000 THEN 180
        ELSE 120

assess_pax_impact(risk_data) ==
    LET risk_prob == Get(risk_data, "risk_probability", 5000)
    IN  IF risk_prob > 7000 THEN "high"
        ELSE IF risk_prob > 5000 THEN "medium"
        ELSE "low"

assess_regulatory_risk(risk_data) ==
    LET risk_prob == Get(risk_data, "risk_probability", 5000)
    IN  IF risk_prob > 7000 THEN "EU261/HKCAD compensation required"
        ELSE "Monitor for compensation thresholds"

RiskValues ==
    LET full == [ likelihood |-> 7000, duration_minutes |-> 200,
                  pax_impact |-> "medium", regulatory_risk |-> "LLM",
                  reasoning |-> "LLM" ]
    IN  { JsonNull, JsonList,
          JsonDict(full, {}),
          JsonDict(Update(full, [risk_probability |-> 2000,
                                 duration_minutes |-> 90]), {}),
          JsonDict(Restrict(full, {"likelihood", "reasoning"}), {}) }

RiskAgent_run(s, v) ==
    LET risk_data == s.risk_assessment
        result ==
          IF Truthy(v) THEN v.d
          ELSE [ likelihood |-> Get(risk_data, "risk_probability", 7500),
                 duration_minutes |-> estimate_duration(risk_data),
                 pax_impact       |-> assess_pax_impact(risk_data),
                 regulatory_risk  |-> assess_regulatory_risk(risk_data),
                 reasoning |-> "Heuristic fallback risk assessment" ]
    IN  IF Truthy(v) /\ v.kind # "dict"
        THEN Raised(s, "TypeError: dict.update of a non-mapping")
        ELSE
        LET s1 == MutateRiskAssessment(s, Update(s.risk_assessment, result))
            s2 == log_reasoning(s1, "RiskAgent", s1.risk_assessment,
                                "risk_assessment", result, "")
            s3 == record_decision(s2, "RiskAgent",
                      "Quantified disruption likelihood and impact", "risk",
                      <<"delay_3hr", "crew_unavailable">>, result)
        IN  IF {"likelihood", "duration_minutes", "pax_impact"}
                   \subseteq DOMAIN result
            THEN Returned(s3)
            ELSE Raised(s3, "KeyError")

----------------------------------------------------------------------------
(* tools.py: rebooking_tool, finance_tool, crew_scheduling_tool *)

\* The remote booking search as the tool finds it when called: "off" (not
\* configured), "ok", or "error" (the search failed and returned its
\* manual-intervention result).
BookingModes == {"off", "ok", "error"}

\* departure_date is TRUE when the caller resolved a date
rebooking_tool(flight_id, pax_count, delay_minutes, vip_count, departure_date, mode) ==
    IF mode # "off" /\ departure_date
    THEN LET needs_hotel == delay_minutes > 180
         IN  [ flight_id      |-> flight_id,
               strategy       |-> IF mode = "error"
                                  THEN "manual_intervention_required"
                                  ELSE IF needs_hotel
                                       THEN "next_day_with_hotel"
                                       ELSE "same_day_alternate",
               hotel_required |-> IF mode = "error" THEN FALSE
                                  ELSE needs_hotel,
               vip_priority   |-> vip_count > 0,
               estimated_pax  |-> pax_count,
               vip_count      |-> vip_count,
               delay_minutes  |-> delay_minutes,
               actions        |-> IF mode = "error" THEN <<>>
                                  ELSE <<"notify_passengers">>,
               flight_options |-> [count |-> IF mode = "error" THEN 0 ELSE 1],
               hotel_options  |-> [count |-> 0],
               total_cost_estimate |-> 0,
               data_source    |-> "amadeus",
               reasoning      |-> "amadeus" ]
    ELSE LET strategy == IF delay_minutes > 180 THEN "next_day_alternate"
                         ELSE IF delay_minutes > 60 THEN "same_day_alternate"
                         ELSE "monitor_and_assess"
             hotel_required == delay_minutes > 180
             actions ==
                 (IF hotel_required
                  THEN <<"Book hotels", "Arrange meal vouchers">> ELSE <<>>)
                 \o (IF vip_count > 0 THEN <<"Prioritize VIP">> ELSE <<>>)
                 \o <<"Search alternative flights", "Notify passengers">>
         IN  [ flight_id      |-> flight_id,
               strategy       |-> strategy,
               hotel_required |-> hotel_required,
               vip_priority   |-> vip_count > 0,
               estimated_pax  |-> pax_count,
               vip_count      |-> vip_count,
               delay_minutes  |-> delay_minutes,
               actions        |-> actions,
               data_source    |-> "synthetic",
               reasoning      |-> "synthetic" ]

\* random.randint(10000, 30000): the ends of the range
OperationalMin == 10000
OperationalMax == 30000
OperationalChoices == {OperationalMin, OperationalMax}

\* Fault model: a finance tool that pays for hotels and meals only from
\* the first compensation bucket on
finance_tool_hotel_from_bucket(pax_count, delay_minutes, hotel_required, flight_distance, operational_usd) ==
    LET per_pax_comp ==
          IF delay_minutes >= 180
          THEN (IF flight_distance = "long" THEN 600
                ELSE IF flight_distance = "medium" THEN 400
                ELSE 250)
          ELSE IF delay_minutes >= 120 THEN 125
          ELSE 0
        compensation_usd == pax_count * per_pax_comp
        hotel_meals_usd  == IF hotel_required /\ delay_minutes >= 120
                            THEN pax_count * 150 ELSE 0
        total_usd == compensation_usd + hotel_meals_usd + operational_usd
    IN  [ compensation_usd |-> compensation_usd,
          hotel_meals_usd  |-> hotel_meals_usd,
          operational_usd  |-> operational_usd,
          total_usd        |-> total_usd,
          breakdown        |-> <<compensation_usd, hotel_meals_usd,
                                 operational_usd>>,
          reasoning        |-> "Total estimated impact" ]

\* operational_usd: the value random.randint returned
finance_tool(pax_count, delay_minutes, hotel_required, flight_distance, operational_usd) ==
    LET per_pax_comp ==
          IF delay_minutes >= 180
          THEN (IF flight_distance = "long" THEN 600
                ELSE IF flight_distance = "medium" THEN 400
                ELSE 250)
          ELSE IF delay_minutes >= 120 THEN 125
          ELSE 0
        compensation_usd == pax_count * per_pax_comp
        hotel_meals_usd  == IF hotel_required THEN pax_count * 150 ELSE 0
        total_usd == compensation_usd + hotel_meals_usd + operational_usd
    IN  [ compensation_usd |-> compensation_usd,
          hotel_meals_usd  |-> hotel_meals_usd,
          operational_usd  |-> operational_usd,
          total_usd        |-> total_usd,
          breakdown        |-> <<compensation_usd, hotel_meals_usd,
                                 operational_usd>>,
          reasoning        |-> "Total estimated impact" ]

\* Fault model: a crew tool that asks for one backup crew per flight,
\* whatever the pool holds
crew_scheduling_tool_per_flight(flight_count, delay_minutes, crew_available) ==
    LET crew_changes_needed == delay_minutes > 120
    IN  [ crew_changes_needed  |-> crew_changes_needed,
          backup_crew_required |-> IF crew_changes_needed
                                   THEN flight_count
                                   ELSE 0,
          crew_available       |-> crew_available,
          regulatory_issues    |-> <<>>,
          actions              |-> <<"Monitor crew duty times">>,
          reasoning            |-> "Delay requires crew decision" ]

crew_scheduling_tool(flight_count, delay_minutes, crew_available) ==
    LET crew_changes_needed == delay_minutes > 120
    IN  [ crew_changes_needed  |-> crew_changes_needed,
          backup_crew_required |-> IF crew_changes_needed
                                   THEN Min(flight_count, crew_available)
                                   ELSE 0,
          crew_available       |-> crew_available,
          regulatory_issues    |-> IF crew_changes_needed
                                   THEN <<"Crew duty time approaching limit",
                                          "Rest requirements must be maintained">>
                                   ELSE <<>>,
          actions              |-> IF crew_changes_needed
                                   THEN <<"Assign backup crew",
                                          "Monitor crew duty times",
                                          "Ensure regulatory compliance">>
                                   ELSE <<"Monitor crew duty times",
                                          "Keep backup crew on standby">>,
          reasoning            |-> "Delay requires crew decision" ]

----------------------------------------------------------------------------
(* agents.py: RebookingAgent, FinanceAgent, CrewAgent *)

SelectSeq2(seq, kind) ==
    SelectSeq(seq, LAMBDA f : f.statusCategory = kind)

\* The part of run() before the backend call; it reads duration_minutes
\* from risk_assessment as it is when the task starts.
RebookingAgent_start(s, mode) ==
    LET critical_flights == SelectSeq2(s.input_data.flights, "critical")
        pax_count     == Get(s.input_data.stats, "paxImpacted", 200)
        delay_minutes == Get(s.risk_assessment, "duration_minutes", 120)
        has_critical  == Len(critical_flights) > 0
    IN  [ pax_count        |-> pax_count,
          critical_flights |-> Len(critical_flights),
          tool_plan |-> rebooking_tool(
                            IF has_critical THEN critical_flights[1].id
                            ELSE "UNKNOWN",
                            pax_count, delay_minutes, pax_count \div 10,
                            has_critical, mode) ]

RebookingValues ==
    { JsonNull, JsonList,
      JsonDict([strategy |-> "llm_strategy", hotel_required |-> TRUE],
               {"estimated_pax"}),
      JsonDict([estimated_pax |-> 50, hotel_required |-> FALSE], {}) }

\* result = tool_plan.copy(); result.update(non-null backend fields)
MergeNonNull(tool_result, v) ==
    IF Truthy(v) THEN Update(tool_result, v.d) ELSE tool_result

\* Fault model: a Rebooking stage that also rewrites the delay estimate in
\* risk_assessment
RebookingAgent_finish_touching_risk(s, l, v) ==
    IF Truthy(v) /\ v.kind # "dict"
    THEN Raised(s, "AttributeError: no attribute 'items'")
    ELSE
    LET result == MergeNonNull(l.tool_plan, v)
        s1 == [s EXCEPT !.rebooking_plan = result,
                        !.risk_assessment =
                            Update(@, [duration_minutes |-> 0])]
        s2 == log_reasoning(s1, "RebookingAgent",
                  [pax_count |-> l.pax_count,
                   critical_flights |-> l.critical_flights], "", result, "")
    IN  Returned(record_decision(s2, "RebookingAgent",
            "Prepared passenger re-accommodation plan", "rebooking",
            <<"delay_3hr">>, result))

\* The part of run() after the backend call; l: the task's locals
RebookingAgent_finish(s, l, v) ==
    IF Truthy(v) /\ v.kind # "dict"
    THEN Raised(s, "AttributeError: no attribute 'items'")
    ELSE
    LET result == MergeNonNull(l.tool_plan, v)
        s1 == [s EXCEPT !.rebooking_plan = result]
        s2 == log_reasoning(s1, "RebookingAgent",
                  [pax_count |-> l.pax_count,
                   critical_flights |-> l.critical_flights], "", result, "")
    IN  Returned(record_decision(s2, "RebookingAgent",
            "Prepared passenger re-accommodation plan", "rebooking",
            <<"delay_3hr">>, result))

FinanceAgent_start(s, operational_usd) ==
    LET rebooking      == s.rebooking_plan
        risk           == s.risk_assessment
        pax_count      == Get(rebooking, "estimated_pax", 200)
        delay_minutes  == Get(risk, "duration_minutes", 120)
        hotel_required == Get(rebooking, "hotel_required", FALSE)
    IN  [ pax_count      |-> pax_count,
          delay_minutes  |-> delay_minutes,
          hotel_required |-> hotel_required,
          tool_estimate  |-> finance_tool(pax_count, delay_minutes,
                                          hotel_required, "medium",
                                          operational_usd) ]

FinanceValues ==
    { JsonNull, JsonList,
      JsonDict([total_usd |-> 99999], {}),
      JsonDict([compensation_usd |-> 0], {"total_usd"}) }

FinanceAgent_finish(s, l, v) ==
    IF Truthy(v) /\ v.kind # "dict"
    THEN Raised(s, "AttributeError: no attribute 'items'")
    ELSE
    LET result == MergeNonNull(l.tool_estimate, v)
        s1 == [s EXCEPT !.finance_estimate = result]
        s2 == log_reasoning(s1, "FinanceAgent",
                  [pax_count |-> l.pax_count], "", result, "")
    IN  Returned(record_decision(s2, "FinanceAgent",
            "Calculated total financial impact", "finance",
            <<"delay_3hr", "crew_unavailable">>, result))

CrewPool == 10

CrewAgent_start(s) ==
    LET flight_count  == Len(s.input_data.flights)
        delay_minutes == Get(s.risk_assessment, "duration_minutes", 120)
    IN  [ flight_count |-> flight_count,
          tool_plan    |-> crew_scheduling_tool(flight_count, delay_minutes,
                                                CrewPool) ]

CrewValues ==
    { JsonNull, JsonList,
      JsonDict([backup_crew_required |-> 12], {}),
      JsonDict([crew_changes_needed |-> FALSE], {"actions"}) }

\* Fault model: a Crew stage that stores the backend's reply alone, with no
\* tool plan to fall back on
CrewAgent_finish_no_fallback(s, l, v) ==
    LET s1 == [s EXCEPT !.crew_rotation = v.d]
        s2 == log_reasoning(s1, "CrewAgent",
                  [flights |-> l.flight_count], "", v.d, "")
    IN  Returned(record_decision(s2, "CrewAgent",
            "Issued crew rotation guidance", "crew",
            <<"crew_unavailable">>, v.d))

CrewAgent_finish(s, l, v) ==
    IF Truthy(v) /\ v.kind # "dict"
    THEN Raised(s, "AttributeError: no attribute 'items'")
    ELSE
    LET result == MergeNonNull(l.tool_plan, v)
        s1 == [s EXCEPT !.crew_rotation = result]
        s2 == log_reasoning(s1, "CrewAgent",
                  [flights |-> l.flight_count], "", result, "")
    IN  Returned(record_decision(s2, "CrewAgent",
            "Issued crew rotation guidance", "crew",
            <<"crew_unavailable">>, result))

----------------------------------------------------------------------------
(* agents.py: AggregatorAgent *)

default_templates ==
    << Template([scenario |-> "delay_3hr",
                 description |-> "Extended delay beyond three hours",
                 plan |-> [description |-> "Issue EU261/HKCAD support"]]),
       Template([scenario |-> "crew_unavailable",
                 description |-> "Relief crew cannot report in time",
                 plan |-> [description |->
                               "Trigger crew contingency roster"]]) >>

SeqContains(seq, x) == \E i \in DOMAIN seq : seq[i] = x

Templates(s) ==
    IF s.what_if_templates # <<>> THEN s.what_if_templates
    ELSE default_templates

\* template.get(...) on a list entry that is not a dict raises
render_scenarios_raises(s) ==
    \E i \in DOMAIN Templates(s) : Templates(s)[i].kind # "dict"

\* Fault model: a rendering that attaches only the decisions tagged with
\* the global sentinel
render_scenarios_global_only(s) ==
    [ i \in DOMAIN Templates(s) |->
        LET template     == Templates(s)[i].d
            scenario_key == Get(template, "scenario",
                                Get(template, "name", "unknown"))
            plan         == Get(template, "plan",
                                Get(template, "details", EmptyDict))
        IN  [ scenario        |-> scenario_key,
              plan            |-> plan,
              summary         |-> Get(template, "description",
                                      Get(plan, "description", "None")),
              agent_decisions |->
                  SelectSeq(s.decision_log,
                      LAMBDA decision :
                          SeqContains(decision.scenarios, "global")) ] ]

render_scenarios(s) ==
    [ i \in DOMAIN Templates(s) |->
        LET template     == Templates(s)[i].d
            scenario_key == Get(template, "scenario",
                                Get(template, "name", "unknown"))
            plan         == Get(template, "plan",
                                Get(template, "details", EmptyDict))
            relevant     == SelectSeq(s.decision_log,
                                LAMBDA decision :
                                    \/ SeqContains(decision.scenarios, "global")
                                    \/ SeqContains(decision.scenarios,
                                                   scenario_key))
        IN  [ scenario        |-> scenario_key,
              plan            |-> plan,
              summary         |-> Get(template, "description",
                                      Get(plan, "description", "None")),
              agent_decisions |-> relevant ] ]

aggregator_priority(risk_likelihood) ==
    IF risk_likelihood > 8000 THEN "critical"
    ELSE IF risk_likelihood > 6000 THEN "high"
    ELSE "medium"

AggregatorAgent_run(s) ==
    LET final_plan ==
          [ disruption_detected |-> s.disruption_detected,
            risk_assessment     |-> s.risk_assessment,
            signal_breakdown    |-> s.signal_breakdown,
            rebooking_plan      |-> s.rebooking_plan,
            finance_estimate    |-> s.finance_estimate,
            crew_rotation       |-> s.crew_rotation,
            recommended_action  |-> IF s.disruption_detected THEN "PROCEED"
                                    ELSE "MONITOR",
            confidence          |-> IF Len(s.audit_log) > 5 THEN "high"
                                    ELSE "medium",
            generated_at        |-> IF s.audit_log # <<>>
                                    THEN Last(s.audit_log).timestamp ELSE 0,
            decision_count      |-> Len(s.decision_log),
            priority            |-> aggregator_priority(
                                        Get(s.risk_assessment,
                                            "likelihood", 0)) ]
    IN  IF render_scenarios_raises(s)
        THEN Raised(s, "AttributeError: no attribute 'get'")
        ELSE
        LET s1 == [s EXCEPT !.simulation_results = render_scenarios(s),
                            !.final_plan = final_plan]
            s2 == log_reasoning(s1, "AggregatorAgent",
                                s1.simulation_results, "simulation_results",
                                final_plan, "final_plan")
        IN  Returned(record_decision(s2, "AggregatorAgent",
                "Compiled final action plan", "aggregation",
                <<"delay_3hr", "crew_unavailable">>,
                [priority |-> final_plan.priority,
                 recommended_action |-> final_plan.recommended_action]))

----------------------------------------------------------------------------
(* workflow.py: DisruptionWorkflowADK *)

\* Fault model: a result that leaves out the decision log
format_output_without_decisions(s) ==
    [ final_plan          |-> s.final_plan,
      audit_log           |-> s.audit_log,
      disruption_detected |-> s.disruption_detected,
      risk_assessment     |-> s.risk_assessment,
      signal_breakdown    |-> s.signal_breakdown,
      rebooking_plan      |-> s.rebooking_plan,
      finance_estimate    |-> s.finance_estimate,
      crew_rotation       |-> s.crew_rotation,
      simulation_results  |-> s.simulation_results,
      progress_updates    |-> s.progress_updates ]

format_output(s) ==
    [ final_plan          |-> s.final_plan,
      audit_log           |-> s.audit_log,
      disruption_detected |-> s.disruption_detected,
      risk_assessment     |-> s.risk_assessment,
      signal_breakdown    |-> s.signal_breakdown,
      rebooking_plan      |-> s.rebooking_plan,
      finance_estimate    |-> s.finance_estimate,
      crew_rotation       |-> s.crew_rotation,
      simulation_results  |-> s.simulation_results,
      decision_log        |-> s.decision_log,
      progress_updates    |-> s.progress_updates ]

\* Fault model: an except clause that drops the audit trail
error_output_without_audit(s, e) ==
    [ error               |-> e,
      disruption_detected |-> s.disruption_detected,
      audit_log           |-> <<>>,
      final_plan          |-> [error |-> "Workflow execution failed"] ]

\* The dict run() returns from its except clause
error_output(s, e) ==
    [ error               |-> e,
      disruption_detected |-> s.disruption_detected,
      audit_log           |-> s.audit_log,
      final_plan          |-> [error |-> "Workflow execution failed"] ]

\* Fault model: a gate that has no plan to write
monitor_plan_missing == EmptyDict

monitor_plan ==
    [ disruption_detected |-> FALSE,
      recommended_action  |-> "MONITOR",
      priority            |-> "low",
      message             |-> "No action required" ]

\* Fields of the state that differ between s1 and s2
Diff(s1, s2) == { f \in DOMAIN s1 : s1[f] # s2[f] }

\* _invoke_llm_json returned v to agent a: "nothing" for a value the
\* agent's "if not ..." test treats as absent, else the kind of the value
RecordResult(a, v) ==
    llm_results' = [llm_results EXCEPT ![a] =
                        Append(@, IF Truthy(v) THEN v.kind ELSE "nothing")]

\* One call of _invoke_llm_json by agent a ends: it returned a value, or
\* an exception escaped it
RecordOutcome(a, available, response) ==
    IF invoke_llm_json_raises(available, response) # ""
    THEN llm_results' = [llm_results EXCEPT ![a] = Append(@, "raised")]
    ELSE RecordResult(a, invoke_llm_json(available, response))

\* The requests served by one AgenticService, whose _get_workflow hands
\* every request the same cached workflow instance
Runs == {"r1", "r2"}

\* No function has been called on its own.  log is the decision_log that
\* the calls of record_decision build, passed the tag lists they were given
NoCall ==
    [fn |-> "none", args |-> EmptyDict, result |-> EmptyDict,
     log |-> <<>>, passed |-> <<>>]

IdleRequest ==
    [stage |-> "idle", input |-> Nothing, state |-> Nothing,
     received |-> <<>>, output |-> Nothing]

Init ==
    /\ \E flight_data \in Inputs : state = create_initial_state(flight_data)
    /\ llm_available \in BOOLEAN
    /\ pc = "predictive"
    /\ task = [a \in TaskAgents |-> "idle"]
    /\ locals = [a \in TaskAgents |-> EmptyDict]
    /\ exc = ""
    /\ output = Nothing
    /\ invoked = <<>>
    /\ llm_calls = [a \in LLMAgents |-> 0]
    /\ llm_results = [a \in LLMAgents |-> <<>>]
    /\ writes = [a \in Agents |-> {}]
    /\ agent_llm = [a \in LLMAgents |-> "unset"]
    /\ requests = [r \in Runs |-> IdleRequest]
    /\ tool = NoCall

\* Step 1 of run(): the Predictive stage
Predictive ==
    /\ pc = "predictive"
    /\ invoked' = Append(invoked, "PredictiveAgent")
    /\ LET s0 == record_progress(
                     record_progress(state, "Workflow", "started"),
                     "PredictiveAgent", "started")
           s1 == PredictiveAgent_run(s0)
       IN  /\ state' = record_progress(s1, "PredictiveAgent", "complete")
           /\ writes' = [writes EXCEPT !["PredictiveAgent"] =
                             @ \cup Diff(s0, s1)]
           /\ pc' = "gate"
           /\ UNCHANGED <<exc, output>>
    /\ UNCHANGED <<llm_available, task, locals, llm_calls,
                   llm_results>>
    /\ UNCHANGED <<agent_llm, requests, tool>>

\* Fault model: a gate that returns without writing the monitoring plan
Gate_without_plan ==
    /\ pc = "gate"
    /\ IF ~state.disruption_detected
       THEN /\ state' = record_progress(state, "Workflow", "complete")
            /\ output' = format_output(state')
            /\ pc' = "done"
       ELSE /\ pc' = "orchestrator"
            /\ UNCHANGED <<state, output>>
    /\ UNCHANGED <<llm_available, task, locals, exc, invoked,
                   llm_calls, llm_results, writes>>
    /\ UNCHANGED <<agent_llm, requests, tool>>

\* The conditional routing after Predictive
Gate ==
    /\ pc = "gate"
    /\ IF ~state.disruption_detected
       THEN /\ state' = [record_progress(state, "Workflow", "complete")
                            EXCEPT !.final_plan = monitor_plan]
            /\ output' = format_output(state')
            /\ pc' = "done"
       ELSE /\ pc' = "orchestrator"
            /\ UNCHANGED <<state, output>>
    /\ UNCHANGED <<llm_available, task, locals, exc, invoked,
                   llm_calls, llm_results, writes>>
    /\ UNCHANGED <<agent_llm, requests, tool>>

\* Step 2 of run(): the Orchestrator stage; on success run() goes on to
\* create the two Phase 1 tasks with asyncio.gather.
Orchestrator ==
    /\ pc = "orchestrator"
    /\ invoked' = Append(invoked, "OrchestratorAgent")
    /\ llm_calls' = [llm_calls EXCEPT !["OrchestratorAgent"] =
                         IF llm_available THEN @ + 1 ELSE @]
    /\ \E response \in Responses(OrchestratorValues) :
         LET s0 == record_progress(state, "OrchestratorAgent", "started")
             v  == invoke_llm_json(llm_available, response)
             r  == AfterHelper(s0, llm_available, response,
                               OrchestratorAgent_run(s0, v))
         IN  /\ RecordOutcome("OrchestratorAgent", llm_available, response)
             /\ writes' = [writes EXCEPT !["OrchestratorAgent"] =
                               @ \cup Diff(s0, r.state)]
             /\ IF r.raised
                THEN /\ state' = r.state
                     /\ exc' = r.error
                     /\ output' = error_output(r.state, r.error)
                     /\ pc' = "done"
                     /\ UNCHANGED task
                ELSE /\ state' =
                          record_progress(
                           record_progress(
                            record_progress(
                             record_progress(r.state, "OrchestratorAgent",
                                             "complete"),
                             "SubAgents", "started"),
                            "RiskAgent", "started"),
                           "RebookingAgent", "started")
                     /\ task' = [task EXCEPT !["RiskAgent"] = "ready",
                                             !["RebookingAgent"] = "ready"]
                     /\ pc' = "join1"
                     /\ UNCHANGED <<exc, output>>
    /\ UNCHANGED <<llm_available, locals>>
    /\ UNCHANGED <<agent_llm, requests, tool>>

\* A task of a gather reaches the end of its agent's run(): r is what the
\* run did.  The first exception of a phase is the one gather re-raises.
FinishTask(a, r) ==
    /\ state' = r.state
    /\ task' = [task EXCEPT ![a] = IF r.raised THEN "raised" ELSE "done"]
    /\ exc' = IF r.raised /\ exc = "" THEN r.error ELSE exc
    /\ writes' = [writes EXCEPT ![a] = @ \cup Diff(state, r.state)]

\* A task issues its backend call and suspends
AwaitBackend(a) ==
    /\ task' = [task EXCEPT ![a] = "awaiting"]
    /\ llm_calls' = [llm_calls EXCEPT ![a] = @ + 1]
    /\ UNCHANGED <<state, exc, writes, llm_results>>

\* Phase 1, first task: RiskAgent.run up to its backend call.  Without a
\* client _invoke_llm_json returns at once and run() completes unsuspended.
RiskStart ==
    /\ task["RiskAgent"] = "ready"
    /\ invoked' = Append(invoked, "RiskAgent")
    /\ IF llm_available
       THEN AwaitBackend("RiskAgent")
       ELSE /\ FinishTask("RiskAgent",
                   AfterHelper(state, FALSE, NoResponse,
                       RiskAgent_run(state,
                           invoke_llm_json(FALSE, NoResponse))))
            /\ RecordOutcome("RiskAgent", FALSE, NoResponse)
            /\ UNCHANGED llm_calls
    /\ UNCHANGED <<llm_available, pc, locals, output>>
    /\ UNCHANGED <<agent_llm, requests, tool>>

\* Fault model: a Risk stage that calls the backend again when the call
\* failed
RiskResume_retrying ==
    /\ task["RiskAgent"] = "awaiting"
    /\ task["RebookingAgent"] # "ready"
    /\ \E response \in Responses(RiskValues) :
         IF response.tag = "error" /\ llm_calls["RiskAgent"] < 2
         THEN /\ llm_calls' = [llm_calls EXCEPT !["RiskAgent"] = @ + 1]
              /\ UNCHANGED <<state, task, exc, writes, llm_results>>
         ELSE LET v == invoke_llm_json(TRUE, response)
              IN  /\ FinishTask("RiskAgent",
                         AfterHelper(state, TRUE, response,
                                     RiskAgent_run(state, v)))
                  /\ RecordOutcome("RiskAgent", TRUE, response)
                  /\ UNCHANGED llm_calls
    /\ UNCHANGED <<llm_available, pc, locals, output, invoked>>
    /\ UNCHANGED <<agent_llm, requests, tool>>

\* RiskAgent.run after the backend call returned or failed
RiskResume ==
    /\ task["RiskAgent"] = "awaiting"
    /\ task["RebookingAgent"] # "ready"
    /\ \E response \in Responses(RiskValues) :
         LET v == invoke_llm_json(TRUE, response)
         IN  /\ FinishTask("RiskAgent",
                    AfterHelper(state, TRUE, response,
                                RiskAgent_run(state, v)))
             /\ RecordOutcome("RiskAgent", TRUE, response)
    /\ UNCHANGED <<llm_available, pc, locals, output, invoked,
                   llm_calls>>
    /\ UNCHANGED <<agent_llm, requests, tool>>

\* Phase 1, second task: RebookingAgent.run up to its backend call
RebookingStart ==
    /\ task["RebookingAgent"] = "ready"
    /\ task["RiskAgent"] # "ready"
    /\ invoked' = Append(invoked, "RebookingAgent")
    /\ \E mode \in BookingModes :
         /\ locals' = [locals EXCEPT !["RebookingAgent"] =
                           RebookingAgent_start(state, mode)]
         /\ IF llm_available
            THEN AwaitBackend("RebookingAgent")
            ELSE /\ FinishTask("RebookingAgent",
                        AfterHelper(state, FALSE, NoResponse,
                            RebookingAgent_finish(state,
                                locals'["RebookingAgent"],
                                invoke_llm_json(FALSE, NoResponse))))
                 /\ RecordOutcome("RebookingAgent", FALSE, NoResponse)
                 /\ UNCHANGED llm_calls
    /\ UNCHANGED <<llm_available, pc, output>>
    /\ UNCHANGED <<agent_llm, requests, tool>>

RebookingResume ==
    /\ task["RebookingAgent"] = "awaiting"
    /\ \E response \in Responses(RebookingValues) :
         LET v == invoke_llm_json(TRUE, response)
         IN  /\ FinishTask("RebookingAgent",
                    AfterHelper(state, TRUE, response,
                        RebookingAgent_finish(state,
                            locals["RebookingAgent"], v)))
             /\ RecordOutcome("RebookingAgent", TRUE, response)
    /\ UNCHANGED <<llm_available, pc, locals, output, invoked,
                   llm_calls>>
    /\ UNCHANGED <<agent_llm, requests, tool>>

\* Fault model: a first join that goes on to Phase 2 as soon as the Risk
\* task is done, whatever the Rebooking task is doing
Join1_without_rebooking ==
    /\ pc = "join1"
    /\ task["RiskAgent"] = "done"
    /\ state' =
         record_progress(
          record_progress(
           record_progress(
            record_progress(state, "RiskAgent", "complete"),
            "RebookingAgent", "complete"),
           "FinanceAgent", "started"),
          "CrewAgent", "started")
    /\ task' = [task EXCEPT !["FinanceAgent"] = "ready",
                            !["CrewAgent"] = "ready"]
    /\ pc' = "join2"
    /\ UNCHANGED <<llm_available, locals, exc, output, invoked, llm_calls,
                   llm_results, writes>>
    /\ UNCHANGED <<agent_llm, requests, tool>>

\* Fault model: a first join that returns only once both tasks are done
Join1_waiting_for_all ==
    /\ pc = "join1"
    /\ task["RiskAgent"] = "done" /\ task["RebookingAgent"] = "done"
    /\ state' =
         record_progress(
          record_progress(
           record_progress(
            record_progress(state, "RiskAgent", "complete"),
            "RebookingAgent", "complete"),
           "FinanceAgent", "started"),
          "CrewAgent", "started")
    /\ task' = [task EXCEPT !["FinanceAgent"] = "ready",
                            !["CrewAgent"] = "ready"]
    /\ pc' = "join2"
    /\ UNCHANGED <<llm_available, locals, exc, output, invoked, llm_calls,
                   llm_results, writes>>
    /\ UNCHANGED <<agent_llm, requests, tool>>

\* The await of the first gather returns: both tasks finished and run()
\* creates the two Phase 2 tasks, or a task raised and run() returns the
\* error dict while the other task is left as it is.
Join1 ==
    /\ pc = "join1"
    /\ task["RiskAgent"] # "ready" /\ task["RebookingAgent"] # "ready"
    /\ \/ /\ task["RiskAgent"] = "done" /\ task["RebookingAgent"] = "done"
          /\ state' =
               record_progress(
                record_progress(
                 record_progress(
                  record_progress(state, "RiskAgent", "complete"),
                  "RebookingAgent", "complete"),
                 "FinanceAgent", "started"),
                "CrewAgent", "started")
          /\ task' = [task EXCEPT !["FinanceAgent"] = "ready",
                                  !["CrewAgent"] = "ready"]
          /\ pc' = "join2"
          /\ UNCHANGED output
       \/ /\ "raised" \in {task["RiskAgent"], task["RebookingAgent"]}
          /\ output' = error_output(state, exc)
          /\ pc' = "done"
          /\ UNCHANGED <<state, task>>
    /\ UNCHANGED <<llm_available, locals, exc, invoked, llm_calls,
                   llm_results, writes>>
    /\ UNCHANGED <<agent_llm, requests, tool>>

\* Phase 2, first task: FinanceAgent.run up to its backend call
FinanceStart ==
    /\ task["FinanceAgent"] = "ready"
    /\ invoked' = Append(invoked, "FinanceAgent")
    /\ \E operational_usd \in OperationalChoices :
         /\ locals' = [locals EXCEPT !["FinanceAgent"] =
                           FinanceAgent_start(state, operational_usd)]
         /\ IF llm_available
            THEN AwaitBackend("FinanceAgent")
            ELSE /\ FinishTask("FinanceAgent",
                        AfterHelper(state, FALSE, NoResponse,
                            FinanceAgent_finish(state,
                                locals'["FinanceAgent"],
                                invoke_llm_json(FALSE, NoResponse))))
                 /\ RecordOutcome("FinanceAgent", FALSE, NoResponse)
                 /\ UNCHANGED llm_calls
    /\ UNCHANGED <<llm_available, pc, output>>
    /\ UNCHANGED <<agent_llm, requests, tool>>

FinanceResume ==
    /\ task["FinanceAgent"] = "awaiting"
    /\ task["CrewAgent"] # "ready"
    /\ \E response \in Responses(FinanceValues) :
         LET v == invoke_llm_json(TRUE, response)
         IN  /\ FinishTask("FinanceAgent",
                    AfterHelper(state, TRUE, response,
                        FinanceAgent_finish(state,
                            locals["FinanceAgent"], v)))
             /\ RecordOutcome("FinanceAgent", TRUE, response)
    /\ UNCHANGED <<llm_available, pc, locals, output, invoked,
                   llm_calls>>
    /\ UNCHANGED <<agent_llm, requests, tool>>

\* Phase 2, second task: CrewAgent.run up to its backend call
CrewStart ==
    /\ task["CrewAgent"] = "ready"
    /\ task["FinanceAgent"] # "ready"
    /\ invoked' = Append(invoked, "CrewAgent")
    /\ locals' = [locals EXCEPT !["CrewAgent"] = CrewAgent_start(state)]
    /\ IF llm_available
       THEN AwaitBackend("CrewAgent")
       ELSE /\ FinishTask("CrewAgent",
                   AfterHelper(state, FALSE, NoResponse,
                       CrewAgent_finish(state, locals'["CrewAgent"],
                           invoke_llm_json(FALSE, NoResponse))))
            /\ RecordOutcome("CrewAgent", FALSE, NoResponse)
            /\ UNCHANGED llm_calls
    /\ UNCHANGED <<llm_available, pc, output>>
    /\ UNCHANGED <<agent_llm, requests, tool>>

CrewResume ==
    /\ task["CrewAgent"] = "awaiting"
    /\ \E response \in Responses(CrewValues) :
         LET v == invoke_llm_json(TRUE, response)
         IN  /\ FinishTask("CrewAgent",
                    AfterHelper(state, TRUE, response,
                        CrewAgent_finish(state, locals["CrewAgent"], v)))
             /\ RecordOutcome("CrewAgent", TRUE, response)
    /\ UNCHANGED <<llm_available, pc, locals, output, invoked,
                   llm_calls>>
    /\ UNCHANGED <<agent_llm, requests, tool>>

\* The await of the second gather returns
Join2 ==
    /\ pc = "join2"
    /\ task["FinanceAgent"] # "ready" /\ task["CrewAgent"] # "ready"
    /\ \/ /\ task["FinanceAgent"] = "done" /\ task["CrewAgent"] = "done"
          /\ state' =
               record_progress(
                record_progress(
                 record_progress(state, "FinanceAgent", "complete"),
                 "CrewAgent", "complete"),
                "AggregatorAgent", "started")
          /\ pc' = "aggregator"
          /\ UNCHANGED output
       \/ /\ "raised" \in {task["FinanceAgent"], task["CrewAgent"]}
          /\ output' = error_output(state, exc)
          /\ pc' = "done"
          /\ UNCHANGED state
    /\ UNCHANGED <<llm_available, task, locals, exc, invoked,
                   llm_calls, llm_results, writes>>
    /\ UNCHANGED <<agent_llm, requests, tool>>

\* Step 4 of run(): the Aggregator stage and the return of the result
Aggregator ==
    /\ pc = "aggregator"
    /\ invoked' = Append(invoked, "AggregatorAgent")
    /\ LET r == AggregatorAgent_run(state)
       IN  /\ writes' = [writes EXCEPT !["AggregatorAgent"] =
                             @ \cup Diff(state, r.state)]
           /\ IF r.raised
              THEN /\ state' = r.state
                   /\ exc' = r.error
                   /\ output' = error_output(r.state, r.error)
              ELSE /\ state' = record_progress(
                                record_progress(r.state, "AggregatorAgent",
                                                "complete"),
                                "Workflow", "complete")
                   /\ output' = format_output(state')
                   /\ UNCHANGED exc
    /\ pc' = "done"
    /\ UNCHANGED <<llm_available, task, locals, llm_calls,
                   llm_results>>
    /\ UNCHANGED <<agent_llm, requests, tool>>

Next ==
    \/ Predictive
    \/ Gate
    \/ Orchestrator
    \/ RiskStart
    \/ RiskResume
    \/ RebookingStart
    \/ RebookingResume
    \/ Join1
    \/ FinanceStart
    \/ FinanceResume
    \/ CrewStart
    \/ CrewResume
    \/ Join2
    \/ Aggregator

Spec == Init /\ [][Next]_vars

----------------------------------------------------------------------------
(* services/agentic.py + workflow.py: several requests on the one cached
   workflow instance.  Each request is a call of run(); the requests
   interleave at the awaits of their agents.  Within one request the
   agents are taken in the order run() creates them: the interleavings of
   the tasks of one gather are what Spec explores. *)

run_vars == <<state, llm_available, pc, task, locals, exc, output,
              invoked, llm_calls, llm_results, writes>>

AgentOrder ==
    <<"PredictiveAgent", "OrchestratorAgent", "RiskAgent", "RebookingAgent",
      "FinanceAgent", "CrewAgent", "AggregatorAgent">>

NextAgent(a) ==
    LET i == CHOOSE k \in DOMAIN AgentOrder : AgentOrder[k] = a
    IN  IF i = Len(AgentOrder) THEN "done" ELSE AgentOrder[i + 1]

\* Payloads of the requests: one critical flight, with and without a
\* ground-truth disruption record
RunInputs ==
    { flight_data \in Inputs :
        /\ flight_data.flights = <<Flight("critical")>>
        /\ flight_data.disruption \in {"absent", "present"} }

ValuesOf(a) ==
    CASE a = "OrchestratorAgent" -> OrchestratorValues
      [] a = "RiskAgent"         -> RiskValues
      [] a = "RebookingAgent"    -> RebookingValues
      [] a = "FinanceAgent"      -> FinanceValues
      [] a = "CrewAgent"         -> CrewValues
      [] OTHER                   -> {}

\* Backend outcomes of a request's agent: Orchestrator, Risk and Finance
\* see a timeout or a fenced JSON object, Rebooking and Crew a timeout
RunResponses(a) ==
    { response \in Responses(ValuesOf(a)) :
        \/ response.tag = "error" /\ response.error = "TimeoutError"
        \/ /\ a \in {"OrchestratorAgent", "RiskAgent", "FinanceAgent"}
           /\ response.tag = "text"
           /\ response.content.kind = "str"
           /\ response.content.text.fence = "json"
           /\ response.content.text.body = "json"
           /\ response.content.text.value =
                 CHOOSE v \in ValuesOf(a) : v.kind = "dict" }

\* _ensure_llm on an agent whose cache is "unset" (_llm is None),
\* "client" (_llm set) or "failed" (_llm_failed): get_llm is called on an
\* unset cache only, and its outcome is kept
ensure_llm(cache, available) ==
    LET after == IF cache = "unset"
                 THEN IF available THEN "client" ELSE "failed"
                 ELSE cache
    IN  [cache |-> after, llm |-> after = "client"]

\* run(state) of agent a; v: what _invoke_llm_json returned
RunAgent(a, s, v, operational_usd) ==
    CASE a = "PredictiveAgent"   -> Returned(PredictiveAgent_run(s))
      [] a = "OrchestratorAgent" -> OrchestratorAgent_run(s, v)
      [] a = "RiskAgent"         -> RiskAgent_run(s, v)
      [] a = "RebookingAgent"    ->
            RebookingAgent_finish(s, RebookingAgent_start(s, "off"), v)
      [] a = "FinanceAgent"      ->
            FinanceAgent_finish(s, FinanceAgent_start(s, operational_usd), v)
      [] a = "CrewAgent"         ->
            CrewAgent_finish(s, CrewAgent_start(s), v)
      [] a = "AggregatorAgent"   -> AggregatorAgent_run(s)

record_all(s, updates) ==
    [s EXCEPT !.progress_updates = @ \o updates]

\* The progress records run() writes before it calls agent a
ProgressBefore(a) ==
    CASE a = "PredictiveAgent" ->
            << <<"Workflow", "started">>, <<"PredictiveAgent", "started">> >>
      [] a = "OrchestratorAgent" -> << <<"OrchestratorAgent", "started">> >>
      [] OTHER -> <<>>

\* The progress records run() writes once agent a has returned
ProgressAfter(a) ==
    CASE a = "PredictiveAgent" -> << <<"PredictiveAgent", "complete">> >>
      [] a = "OrchestratorAgent" ->
            << <<"OrchestratorAgent", "complete">>, <<"SubAgents", "started">>,
               <<"RiskAgent", "started">>, <<"RebookingAgent", "started">> >>
      [] a = "RebookingAgent" ->
            << <<"RiskAgent", "complete">>, <<"RebookingAgent", "complete">>,
               <<"FinanceAgent", "started">>, <<"CrewAgent", "started">> >>
      [] a = "CrewAgent" ->
            << <<"FinanceAgent", "complete">>, <<"CrewAgent", "complete">>,
               <<"AggregatorAgent", "started">> >>
      [] a = "AggregatorAgent" ->
            << <<"AggregatorAgent", "complete">>, <<"Workflow", "complete">> >>
      [] OTHER -> <<>>

InitRuns ==
    /\ state = create_initial_state(CHOOSE flight_data \in RunInputs : TRUE)
    /\ llm_available \in BOOLEAN
    /\ pc = "predictive"
    /\ task = [a \in TaskAgents |-> "idle"]
    /\ locals = [a \in TaskAgents |-> EmptyDict]
    /\ exc = ""
    /\ output = Nothing
    /\ invoked = <<>>
    /\ llm_calls = [a \in LLMAgents |-> 0]
    /\ llm_results = [a \in LLMAgents |-> <<>>]
    /\ writes = [a \in Agents |-> {}]
    /\ agent_llm = [a \in LLMAgents |-> "unset"]
    /\ requests = [r \in Runs |-> IdleRequest]
    /\ tool = NoCall

\* Fault model: a run() that goes on from the state object of a request
\* already being served instead of building its own
RunBegin_reusing_state(r) ==
    /\ requests[r].stage = "idle"
    /\ \E flight_data \in RunInputs :
         LET others == {o \in Runs \ {r} : requests[o].stage # "idle"}
             fresh  == create_initial_state(flight_data)
             s0     == IF others = {}
                       THEN fresh
                       ELSE [requests[CHOOSE o \in others : TRUE].state
                               EXCEPT !.input_data = flight_data]
         IN  requests' = [requests EXCEPT ![r] =
                 [stage |-> "PredictiveAgent", input |-> flight_data,
                  state |-> s0, received |-> <<>>, output |-> Nothing]]
    /\ UNCHANGED agent_llm
    /\ UNCHANGED run_vars
    /\ UNCHANGED tool

\* A request arrives: run() builds its DisruptionState
RunBegin(r) ==
    /\ requests[r].stage = "idle"
    /\ \E flight_data \in RunInputs :
         requests' = [requests EXCEPT ![r] =
             [stage |-> "PredictiveAgent", input |-> flight_data,
              state |-> create_initial_state(flight_data),
              received |-> <<>>, output |-> Nothing]]
    /\ UNCHANGED agent_llm
    /\ UNCHANGED run_vars
    /\ UNCHANGED tool

\* The next agent of request r runs to its end, and run() goes on to the
\* next await or returns
RunStage(r) ==
    /\ requests[r].stage \in Agents
    /\ LET q == requests[r]
           a == q.stage
       IN  \E response \in RunResponses(a) \cup {NoResponse},
              operational_usd \in OperationalChoices :
             LET e   == IF a \in LLMAgents
                        THEN ensure_llm(agent_llm[a], llm_available)
                        ELSE [cache |-> "unset", llm |-> FALSE]
                 v   == invoke_llm_json(e.llm, response)
                 s0  == record_all(q.state, ProgressBefore(a))
                 res == RunAgent(a, s0, v, operational_usd)
                 s1  == record_all(res.state, ProgressAfter(a))
                 got == [agent |-> a, response |-> response,
                         operational_usd |->
                           IF a = "FinanceAgent" THEN operational_usd ELSE 0]
             IN  /\ e.llm <=> response \in RunResponses(a)
                 /\ a # "FinanceAgent" => operational_usd = OperationalMin
                 /\ agent_llm' = IF a \in LLMAgents
                                 THEN [agent_llm EXCEPT ![a] = e.cache]
                                 ELSE agent_llm
                 /\ requests' = [requests EXCEPT ![r] =
                       IF res.raised
                       THEN [q EXCEPT !.stage = "done", !.state = res.state,
                                      !.received = Append(@, got),
                                      !.output =
                                         error_output(res.state, res.error)]
                       ELSE IF a = "PredictiveAgent"
                               /\ ~res.state.disruption_detected
                       THEN LET s2 == [record_all(s1,
                                         << <<"Workflow", "complete">> >>)
                                         EXCEPT !.final_plan = monitor_plan]
                            IN  [q EXCEPT !.stage = "done", !.state = s2,
                                          !.received = Append(@, got),
                                          !.output = format_output(s2)]
                       ELSE [q EXCEPT !.stage = NextAgent(a), !.state = s1,
                                      !.received = Append(@, got),
                                      !.output =
                                         IF a = "AggregatorAgent"
                                         THEN format_output(s1)
                                         ELSE Nothing]]
    /\ UNCHANGED run_vars
    /\ UNCHANGED tool

NextRuns ==
    \/ \E r \in Runs : RunBegin(r)
    \/ \E r \in Runs : RunStage(r)

SpecRuns == InitRuns /\ [][NextRuns]_vars

----------------------------------------------------------------------------
(* workflow.py: one run under the scheduling of the event loop *)

\* One run on a payload with one critical flight and a passenger count
InitLive ==
    /\ Init
    /\ state.input_data \in RunInputs
    /\ "paxImpacted" \in DOMAIN state.input_data.stats

\* The event loop runs every task that is ready, and every backend call
\* and booking search returns or fails: a step that can be taken is taken
SpecLive == InitLive /\ [][Next]_vars /\ WF_vars(Next)

----------------------------------------------------------------------------
(* state.py, tools.py, agents.py: the functions called on their own, on
   arguments drawn from bounded sets *)

MaxDecisions == 2

\* Tag lists a caller passes: <<>> stands for None and for the empty list
ScenarioArgs ==
    { <<>>, <<"global">>, <<"delay_3hr">>, <<"delay_3hr", "crew_unavailable">> }

CategoryArgs == {"", "finance"}

InitTools ==
    /\ InitRuns
    /\ ~llm_available

\* record_decision is called again and again on the same decision_log
CallRecordDecision ==
    /\ tool.fn \in {"none", "record_decision"}
    /\ Len(tool.log) < MaxDecisions
    /\ \E scenarios \in ScenarioArgs, category \in CategoryArgs :
         LET s0 == [create_initial_state(state.input_data)
                       EXCEPT !.decision_log = tool.log]
             s1 == record_decision(s0, "FinanceAgent", "Estimated cost",
                                   category, scenarios, EmptyDict)
         IN  tool' = [fn |-> "record_decision",
                      args |-> [scenarios |-> scenarios,
                                category |-> category],
                      result |-> Last(s1.decision_log),
                      log |-> s1.decision_log,
                      passed |-> Append(tool.passed, scenarios)]
    /\ UNCHANGED <<run_vars, agent_llm, requests>>

MaxFlightCount == 3

DelayArgs == {0, 45, 120, 121, 179, 180, 200}

CrewAvailableArgs == {0, 1, 5, 10}

\* One call of the tool, which keeps nothing between calls
CallCrewTool ==
    /\ tool.fn = "none"
    /\ \E flight_count \in 0..MaxFlightCount, delay_minutes \in DelayArgs, crew_available \in CrewAvailableArgs :
         tool' = [tool EXCEPT
                    !.fn = "crew_scheduling_tool",
                    !.args = [flight_count |-> flight_count,
                              delay_minutes |-> delay_minutes,
                              crew_available |-> crew_available],
                    !.result = crew_scheduling_tool(flight_count,
                                   delay_minutes, crew_available)]
    /\ UNCHANGED <<run_vars, agent_llm, requests>>

PaxArgs == {0, 1, 120, 200}

DistanceArgs == {"short", "medium", "long"}

CallFinanceTool ==
    /\ tool.fn = "none"
    /\ \E pax_count \in PaxArgs, delay_minutes \in DelayArgs, hotel_required \in BOOLEAN, flight_distance \in DistanceArgs, operational_usd \in OperationalChoices :
         tool' = [tool EXCEPT
                    !.fn = "finance_tool",
                    !.args = [pax_count |-> pax_count,
                              delay_minutes |-> delay_minutes,
                              hotel_required |-> hotel_required,
                              flight_distance |-> flight_distance],
                    !.result = finance_tool(pax_count, delay_minutes,
                                   hotel_required, flight_distance,
                                   operational_usd)]
    /\ UNCHANGED <<run_vars, agent_llm, requests>>

\* Likelihoods in units of 1/10000, on and around the thresholds
LikelihoodArgs == {0, 2000, 4000, 4001, 6000, 6001, 8000, 8001, 10000}

\* The two ladders on the same likelihood: Aggregator's priority and
\* Orchestrator's _calculate_severity
CallPriority ==
    /\ tool.fn = "none"
    /\ \E likelihood \in LikelihoodArgs :
         tool' = [tool EXCEPT
                    !.fn = "priority",
                    !.args = [likelihood |-> likelihood],
                    !.result = [priority |-> aggregator_priority(likelihood),
                                severity |-> calculate_severity(likelihood)]]
    /\ UNCHANGED <<run_vars, agent_llm, requests>>

NextTools ==
    \/ CallRecordDecision
    \/ CallCrewTool
    \/ CallFinanceTool
    \/ CallPriority

SpecTools == InitTools /\ [][NextTools]_vars

----------------------------------------------------------------------------
(* Properties of the workflow *)

AgentNames(log) == [i \in 1..Len(log) |-> log[i].agent]

\* C1: when the Predictive stage leaves disruption_detected false, the run
\* returns the monitoring plan {disruption_detected: false,
\* recommended_action: "MONITOR", priority: "low", message: "No action
\* required"}, no agent after Predictive is invoked, and rebooking_plan,
\* finance_estimate, crew_rotation, what_if_templates and
\* simulation_results are still empty.
C1_GateStopsRun ==
    /\ (pc # "predictive" /\ ~state.disruption_detected) =>
          /\ invoked = <<"PredictiveAgent">>
          /\ \A a \in TaskAgents : task[a] = "idle"
          /\ pc \in {"gate", "done"}
    /\ (pc = "done" /\ ~state.disruption_detected) =>
          /\ exc = ""
          /\ output.final_plan =
                [ disruption_detected |-> FALSE,
                  recommended_action  |-> "MONITOR",
                  priority            |-> "low",
                  message             |-> "No action required" ]
          /\ output.disruption_detected = FALSE
          /\ output.rebooking_plan = EmptyDict
          /\ output.finance_estimate = EmptyDict
          /\ output.crew_rotation = EmptyDict
          /\ output.simulation_results = <<>>
          /\ state.what_if_templates = <<>>

C1_Witness ==
    /\ pc = "done"
    /\ ~state.disruption_detected
    /\ state.input_data.disruption = "empty"
    /\ output.final_plan.recommended_action = "MONITOR"

C3_BackendNeverFailsRun ==
    /\ exc = ""
    /\ pc = "done" => "error" \notin DOMAIN output

\* C4: when the reasoning helper returns nothing on every call, a run on a
\* payload with a ground-truth disruption invokes all seven agents and
\* returns without an error field a final_plan that carries
\* disruption_detected = true, recommended_action, priority, confidence
\* and the risk, rebooking, finance and crew snapshots; rebooking_plan,
\* finance_estimate, crew_rotation and audit_log are non-empty.
C4_FallbackCompletes ==
    ( /\ pc = "done"
      /\ state.disruption_detected
      /\ \A a \in LLMAgents : \A i \in DOMAIN llm_results[a] :
             llm_results[a][i] = "nothing" ) =>
        /\ exc = ""
        /\ "error" \notin DOMAIN output
        /\ Len(invoked) = 7
        /\ {invoked[i] : i \in DOMAIN invoked} = Agents
        /\ output.disruption_detected
        /\ output.final_plan.disruption_detected
        /\ {"recommended_action", "priority", "confidence",
            "risk_assessment", "rebooking_plan", "finance_estimate",
            "crew_rotation"} \subseteq DOMAIN output.final_plan
        /\ output.final_plan.recommended_action = "PROCEED"
        /\ output.final_plan.risk_assessment = output.risk_assessment
        /\ output.final_plan.rebooking_plan = output.rebooking_plan
        /\ output.final_plan.finance_estimate = output.finance_estimate
        /\ output.final_plan.crew_rotation = output.crew_rotation
        /\ output.rebooking_plan # EmptyDict
        /\ output.finance_estimate # EmptyDict
        /\ output.crew_rotation # EmptyDict
        /\ output.audit_log # <<>>

C4_Witness ==
    /\ pc = "done"
    /\ state.input_data.disruption = "present"
    /\ llm_available
    /\ \A a \in LLMAgents : llm_results[a] = <<"nothing">>
    /\ output.final_plan.confidence = "high"

\* C5: when an agent raises (Orchestrator, a task of Phase 1 or Phase 2,
\* Aggregator), run() returns {error: the message, disruption_detected:
\* the value known then, audit_log: the entries appended so far,
\* final_plan: {error: "Workflow execution failed"}}.  PredictiveAgent.run
\* sits in the same try block but has no raising path on the payloads the
\* providers build, so its case does not occur here.
C5_ErrorEnvelope ==
    [][ (pc # "done" /\ pc' = "done" /\ exc' # "") =>
            output' =
              [ error               |-> exc',
                disruption_detected |-> state'.disruption_detected,
                audit_log           |-> state'.audit_log,
                final_plan          |-> [error |-> "Workflow execution failed"] ]
      ]_vars

C5_Witness ==
    /\ pc = "done"
    /\ task["RiskAgent"] = "raised"
    /\ task["RebookingAgent"] = "awaiting"
    /\ output.error = "KeyError"
    /\ Len(output.audit_log) = 3

SuccessKeys ==
    {"final_plan", "audit_log", "disruption_detected", "risk_assessment",
     "signal_breakdown", "rebooking_plan", "finance_estimate",
     "crew_rotation", "simulation_results", "decision_log"}

\* C6 as stated: the error result carries the same keys as the result
\* _format_output builds (final_plan, audit_log, disruption_detected,
\* risk_assessment, signal_breakdown, rebooking_plan, finance_estimate,
\* crew_rotation, simulation_results, decision_log).
C6_SameEnvelopeShape ==
    (pc = "done" /\ "error" \in DOMAIN output) =>
        SuccessKeys \subseteq DOMAIN output

\* C6, amended: run() returns either the result of _format_output, with
\* the ten keys above plus progress_updates, no error key and a complete
\* final_plan, or an error result of exactly four keys: error,
\* disruption_detected, audit_log, and a final_plan that holds only
\* {error: "Workflow execution failed"}.  The other fields of the state
\* are absent from the error result.
C6_TwoEnvelopes ==
    pc = "done" =>
        IF exc = ""
        THEN /\ DOMAIN output = SuccessKeys \cup {"progress_updates"}
             /\ {"disruption_detected", "recommended_action", "priority"}
                    \subseteq DOMAIN output.final_plan
             /\ "error" \notin DOMAIN output.final_plan
        ELSE /\ DOMAIN output = {"error", "disruption_detected",
                                 "audit_log", "final_plan"}
             /\ output.error # ""
             /\ output.final_plan = [error |-> "Workflow execution failed"]

C6_Witness ==
    /\ pc = "done"
    /\ "error" \in DOMAIN output
    /\ task["FinanceAgent"] = "raised"
    /\ state.rebooking_plan # EmptyDict
    /\ "rebooking_plan" \notin DOMAIN output

\* C7: on a payload with a non-empty ground-truth disruption record,
\* PredictiveAgent.run sets risk_probability to 1.0, disruption_detected
\* to true and signal_breakdown to {} whatever the readiness scores are,
\* stores none of the predictive tool's result, and appends its audit
\* entry.
C7_GroundTruth ==
    (pc = "gate" /\ state.input_data.disruption = "present") =>
        /\ state.risk_assessment.risk_probability = 10000
        /\ state.disruption_detected
        /\ state.signal_breakdown = EmptyDict
        /\ DOMAIN state.risk_assessment = {"risk_probability", "reasoning"}
        /\ Len(state.audit_log) = 1
        /\ state.audit_log[1].agent = "PredictiveAgent"
        /\ state.audit_log[1].output = state.risk_assessment

C7_Witness ==
    /\ pc = "gate"
    /\ state.input_data.disruption = "present"
    /\ state.input_data.stats.weatherScore = 1000
    /\ state.risk_assessment.risk_probability = 10000

\* C8: on a payload with weatherScore 0.8, aircraftScore 0.6, crewScore
\* 0.5 and no ground-truth disruption, PredictiveAgent.run detects a
\* disruption with a risk_probability that is the weighted combination
\* of the three scores (0.4 weather, 0.3 crew, 0.3 aircraft) and at least
\* 0.6.
C8_ScenarioADetected ==
    ( /\ pc = "gate"
      /\ state.input_data.disruption # "present"
      /\ state.input_data.stats =
            [weatherScore |-> 8000, aircraftScore |-> 6000,
             crewScore |-> 5000] ) =>
        /\ state.disruption_detected
        /\ state.risk_assessment.risk_probability >= 6000
        /\ state.risk_assessment.risk_probability =
              (4 * 8000 + 3 * 5000 + 3 * 6000) \div 10

\* C9: Finance and Crew do not start before both Risk and Rebooking have
\* finished, the Aggregator does not start before both Finance and Crew
\* have finished, and the estimated_pax, hotel_required and
\* duration_minutes Finance read are the values rebooking_plan and
\* risk_assessment hold.
C9_PhasesJoined ==
    /\ (task["FinanceAgent"] # "idle" \/ task["CrewAgent"] # "idle") =>
          (task["RiskAgent"] = "done" /\ task["RebookingAgent"] = "done")
    /\ (pc = "aggregator" \/
        \E i \in DOMAIN invoked : invoked[i] = "AggregatorAgent") =>
          (task["FinanceAgent"] = "done" /\ task["CrewAgent"] = "done")
    /\ task["FinanceAgent"] \in {"awaiting", "done", "raised"} =>
          /\ locals["FinanceAgent"].pax_count =
                Get(state.rebooking_plan, "estimated_pax", 200)
          /\ locals["FinanceAgent"].hotel_required =
                Get(state.rebooking_plan, "hotel_required", FALSE)
          /\ locals["FinanceAgent"].delay_minutes =
                Get(state.risk_assessment, "duration_minutes", 120)

C9_Witness ==
    /\ pc = "aggregator"
    /\ task["FinanceAgent"] = "done"
    /\ locals["FinanceAgent"].pax_count = 50
    /\ locals["FinanceAgent"].delay_minutes = 90

PhaseField ==
    [ RiskAgent      |-> "risk_assessment",
      RebookingAgent |-> "rebooking_plan",
      FinanceAgent   |-> "finance_estimate",
      CrewAgent      |-> "crew_rotation" ]

\* C10 as stated: Risk writes only risk_assessment, Rebooking only
\* rebooking_plan, Finance only finance_estimate and Crew only
\* crew_rotation.
C10_WritesOnlyOwnField ==
    \A a \in TaskAgents : writes[a] \subseteq {PhaseField[a]}

\* C10, amended: apart from audit_log and decision_log, to which every
\* agent appends its entries, Risk writes only risk_assessment, Rebooking
\* only rebooking_plan, Finance only finance_estimate and Crew only
\* crew_rotation, so the two agents of a phase share no other field; and
\* the entries either agent appended to the two logs are all there.
C10_DisjointWrites ==
    /\ \A a \in TaskAgents :
          writes[a] \ {"audit_log", "decision_log"} \subseteq
              {PhaseField[a]}
    /\ \A a \in TaskAgents :
          task[a] = "done" =>
            /\ PhaseField[a] \in writes[a]
            /\ Cardinality({i \in DOMAIN state.audit_log :
                               state.audit_log[i].agent = a}) = 1
            /\ Cardinality({i \in DOMAIN state.decision_log :
                               state.decision_log[i].agent = a}) = 1

C10_Witness ==
    /\ task["RiskAgent"] = "done"
    /\ task["RebookingAgent"] = "done"
    /\ writes["RiskAgent"] =
          {"risk_assessment", "audit_log", "decision_log"}
    /\ writes["RebookingAgent"] =
          {"rebooking_plan", "audit_log", "decision_log"}
    /\ state.audit_log[3].agent = "RebookingAgent"

\* C11: audit_log is append-only.  Once an entry is in the log, no later
\* step changes its agent, its input snapshot, its output snapshot or its
\* timestamp, and the log is never truncated or reordered.
C11_AuditAppendOnly ==
    [][ /\ Len(state'.audit_log) >= Len(state.audit_log)
        /\ \A i \in DOMAIN state.audit_log :
              /\ state'.audit_log[i].agent = state.audit_log[i].agent
              /\ state'.audit_log[i].input = state.audit_log[i].input
              /\ state'.audit_log[i].output = state.audit_log[i].output
              /\ state'.audit_log[i].timestamp = state.audit_log[i].timestamp
      ]_vars

\* C13: every finance_estimate a run produces, from the tool alone or
\* after the backend's non-null fields were merged in, satisfies
\* total_usd = compensation_usd + hotel_meals_usd + operational_usd.
C13_FinanceTotal ==
    state.finance_estimate # EmptyDict =>
        state.finance_estimate.total_usd =
            state.finance_estimate.compensation_usd
            + state.finance_estimate.hotel_meals_usd
            + state.finance_estimate.operational_usd

\* C14: every crew_rotation a run produces has backup_crew_required <=
\* crew_available, and backup_crew_required > 0 only when
\* crew_changes_needed is true.
C14_CrewBounds ==
    state.crew_rotation # EmptyDict =>
        /\ state.crew_rotation.backup_crew_required <=
               state.crew_rotation.crew_available
        /\ state.crew_rotation.backup_crew_required > 0 =>
               state.crew_rotation.crew_changes_needed

\* The decisions of a log tagged with a scenario key or with "global"
Tagged(log, key) ==
    SelectSeq(log, LAMBDA decision :
                       \/ SeqContains(decision.scenarios, "global")
                       \/ SeqContains(decision.scenarios, key))

\* C15 as stated: after the Aggregator stage every entry of
\* simulation_results lists exactly the decisions of decision_log tagged
\* with the entry's scenario key or with "global", and the list is
\* non-empty whenever there is such a decision.
C15_ExactlyTaggedDecisions ==
    (pc = "done" /\ exc = "" /\ state.disruption_detected) =>
        \A i \in DOMAIN state.simulation_results :
            LET e == state.simulation_results[i]
            IN  /\ e.agent_decisions = Tagged(state.decision_log, e.scenario)
                /\ Tagged(state.decision_log, e.scenario) # <<>> =>
                       e.agent_decisions # <<>>

\* C15, amended: every entry of simulation_results lists exactly the
\* decisions tagged with its scenario key or with "global" that were
\* recorded before the Aggregator's own decision, which is appended after
\* the rendering and appears in no entry; the list is non-empty whenever
\* decision_log holds a decision with such a tag.
C15_TaggedBeforeAggregator ==
    (pc = "done" /\ exc = "" /\ state.disruption_detected) =>
        LET n      == Len(state.decision_log)
            before == SubSeq(state.decision_log, 1, n - 1)
        IN  /\ n >= 1
            /\ state.decision_log[n].agent = "AggregatorAgent"
            /\ state.simulation_results # <<>>
            /\ \A i \in DOMAIN state.simulation_results :
                  LET e == state.simulation_results[i]
                  IN  /\ e.agent_decisions = Tagged(before, e.scenario)
                      /\ Tagged(state.decision_log, e.scenario) # <<>> =>
                             e.agent_decisions # <<>>

C15_Witness ==
    /\ pc = "done"
    /\ exc = ""
    /\ Len(state.decision_log) = 6
    /\ \E i \in DOMAIN state.simulation_results :
          /\ state.simulation_results[i].scenario = "delay_3hr"
          /\ Len(state.simulation_results[i].agent_decisions) = 4

IsPrefix(s1, s2) ==
    /\ Len(s1) <= Len(s2)
    /\ \A i \in DOMAIN s1 : s2[i] = s1[i]

\* run() of agent a has returned normally
Finished(a) ==
    CASE a = "PredictiveAgent"   -> pc # "predictive"
      [] a = "OrchestratorAgent" ->
            \/ pc \in {"join1", "join2", "aggregator"}
            \/ pc = "done" /\ exc = "" /\ state.disruption_detected
      [] a = "AggregatorAgent"   ->
            pc = "done" /\ exc = "" /\ state.disruption_detected
      [] OTHER                   -> task[a] = "done"

\* C16: run(state) of each of the seven agents appends exactly one entry
\* to audit_log, carrying the agent's name, and zero or more entries to
\* decision_log, and removes or changes no entry already in either log.
C16_OneAuditEntryPerAgent ==
    [][ /\ IsPrefix(state.audit_log, state'.audit_log)
        /\ IsPrefix(state.decision_log, state'.decision_log)
        /\ \A a \in Agents :
              Finished(a)' =>
                Cardinality({i \in DOMAIN state'.audit_log :
                                state'.audit_log[i].agent = a}) = 1
      ]_vars

\* C17: PredictiveAgent.run appends exactly one decision to decision_log
\* on every path, tagged {delay_3hr, crew_unavailable} when it detects a
\* disruption (by the heuristic or from a ground-truth record) and
\* {global} otherwise.
C17_PredictiveDecision ==
    pc = "gate" =>
        /\ Len(state.decision_log) = 1
        /\ state.decision_log[1].agent = "PredictiveAgent"
        /\ state.decision_log[1].scenarios =
              IF state.disruption_detected
              THEN <<"delay_3hr", "crew_unavailable">>
              ELSE <<"global">>

\* C19 as stated: final_plan is assigned exactly once per analysis and
\* only by AggregatorAgent.
C19_OnlyAggregatorWritesPlan ==
    [][ state'.final_plan # state.final_plan =>
            (pc = "aggregator" /\ state.final_plan = EmptyDict) ]_vars

\* C19, amended: state.final_plan is assigned at most once per analysis:
\* by run() itself at the gate, with the monitoring plan, when no
\* disruption was detected, and by AggregatorAgent otherwise.  Every run
\* that returns without an error has assigned it; a run that returns the
\* error result has not.
C19_PlanWrittenOnce ==
    [][ /\ state'.final_plan # state.final_plan =>
              /\ state.final_plan = EmptyDict
              /\ \/ pc = "aggregator" /\ state.disruption_detected
                 \/ pc = "gate" /\ ~state.disruption_detected
        /\ (pc' = "done" /\ exc' = "") => state'.final_plan # EmptyDict
        /\ (pc' = "done" /\ exc' # "") => state'.final_plan = EmptyDict
      ]_vars

C19_Witness ==
    /\ pc = "done"
    /\ exc = ""
    /\ "message" \in DOMAIN state.final_plan
    /\ writes["AggregatorAgent"] = {}
    /\ invoked = <<"PredictiveAgent">>

HelperExceptions == CallErrors \cup {"LLMProviderError", "JSONDecodeError"}

AllValues ==
    OrchestratorValues \cup RiskValues \cup RebookingValues
        \cup FinanceValues \cup CrewValues

\* C18: _invoke_llm_json never raises.  Whether or not a client can be
\* built, and whether the call raises (an API error, a timeout) or
\* returns a str, a list of parts or another object, parsable or not, no
\* exception escapes the helper: every call of it in a run returned a
\* parsed value or nothing, and no run ends with one of its exceptions.
C18_HelperNeverRaises ==
    /\ \A a \in LLMAgents : \A i \in DOMAIN llm_results[a] :
          llm_results[a][i] \in {"nothing", "dict", "list"}
    /\ exc \notin HelperExceptions
    /\ invoked = <<>> =>
        \A response \in Responses(AllValues) \cup {NoResponse} :
          /\ invoke_llm_json_raises(llm_available, response) = ""
          /\ invoke_llm_json(llm_available, response).kind
                \in {"none", "dict", "list", "empty_list"}

C18_Witness ==
    /\ llm_available
    /\ pc = "done"
    /\ exc = ""
    /\ llm_results["RiskAgent"] = <<"nothing">>
    /\ llm_results["FinanceAgent"] = <<"dict">>

\* run() of agent a has ended, by returning or by raising
RunEnded(a) ==
    /\ \E i \in DOMAIN invoked : invoked[i] = a
    /\ a \in TaskAgents => task[a] \in {"done", "raised"}

\* C20: there is no retry.  In every run each invoked reasoning-backed
\* agent calls _invoke_llm_json exactly once, and that one attempt issues
\* exactly one backend call when a client is configured (none when no
\* client can be built), whether the call succeeds or fails.
C20_NoRetry ==
    \A a \in LLMAgents :
        /\ llm_calls[a] <= 1
        /\ Len(llm_results[a]) <= 1
        /\ RunEnded(a) =>
              /\ Len(llm_results[a]) = 1
              /\ llm_calls[a] = IF llm_available THEN 1 ELSE 0
        /\ (a \in TaskAgents /\ task[a] = "awaiting") =>
              /\ llm_calls[a] = 1
              /\ llm_results[a] = <<>>

C20_Witness ==
    /\ llm_available
    /\ pc = "done"
    /\ exc = ""
    /\ state.disruption_detected
    /\ \A a \in LLMAgents : llm_calls[a] = 1
    /\ llm_results["CrewAgent"] = <<"nothing">>
    /\ llm_results["OrchestratorAgent"] = <<"dict">>

Started(r) == requests[r].stage # "idle"

C21_TagsNonEmpty ==
    /\ Len(tool.passed) = Len(tool.log)
    /\ \A i \in DOMAIN tool.log :
          /\ tool.log[i].scenarios # <<>>
          /\ tool.log[i].scenarios =
                IF tool.passed[i] = <<>> THEN <<"global">> ELSE tool.passed[i]

C21_Witness ==
    /\ tool.fn = "record_decision"
    /\ Len(tool.log) = 2
    /\ tool.passed = << <<"delay_3hr">>, <<>> >>
    /\ tool.log[2].scenarios = <<"global">>

\* C22: after OrchestratorAgent.run on a disrupted state with the helper
\* returning nothing, simulation_results is non-empty and has entries for
\* both delay_3hr and crew_unavailable, and the last audit_log entry is
\* OrchestratorAgent's.
C22_FallbackScenarios ==
    ( /\ pc = "join1"
      /\ invoked = <<"PredictiveAgent", "OrchestratorAgent">>
      /\ llm_results["OrchestratorAgent"] = <<"nothing">> ) =>
        /\ state.simulation_results # <<>>
        /\ \A key \in {"delay_3hr", "crew_unavailable"} :
              \E i \in DOMAIN state.simulation_results :
                  state.simulation_results[i].scenario = key
        /\ Last(state.audit_log).agent = "OrchestratorAgent"

\* C23 as stated: crew_changes_needed = (delay_minutes > 120); whenever
\* delay_minutes > 120 and crew_available >= 1, for every flight_count,
\* crew_changes_needed is true and 0 < backup_crew_required <=
\* crew_available with backup_crew_required = min(flight_count,
\* crew_available); when delay_minutes <= 120, backup_crew_required = 0.
C23_CrewToolEveryCount ==
    tool.fn = "crew_scheduling_tool" =>
        /\ tool.result.crew_changes_needed = (tool.args.delay_minutes > 120)
        /\ (tool.args.delay_minutes > 120 /\ tool.args.crew_available >= 1) =>
              /\ tool.result.crew_changes_needed
              /\ 0 < tool.result.backup_crew_required
              /\ tool.result.backup_crew_required <= tool.args.crew_available
              /\ tool.result.backup_crew_required =
                    Min(tool.args.flight_count, tool.args.crew_available)
        /\ tool.args.delay_minutes <= 120 =>
              tool.result.backup_crew_required = 0

\* C23, amended: crew_changes_needed = (delay_minutes > 120).  When
\* delay_minutes > 120, backup_crew_required = min(flight_count,
\* crew_available), which never exceeds crew_available and is positive
\* exactly when flight_count >= 1 and crew_available >= 1: for
\* flight_count = 0 it is 0 although crew_changes_needed is true.  When
\* delay_minutes <= 120, backup_crew_required = 0.
C23_CrewTool ==
    tool.fn = "crew_scheduling_tool" =>
        /\ tool.result.crew_changes_needed = (tool.args.delay_minutes > 120)
        /\ tool.args.delay_minutes > 120 =>
              /\ tool.result.backup_crew_required =
                    Min(tool.args.flight_count, tool.args.crew_available)
              /\ tool.result.backup_crew_required <= tool.args.crew_available
              /\ tool.result.backup_crew_required > 0 <=>
                    (tool.args.flight_count >= 1
                       /\ tool.args.crew_available >= 1)
        /\ tool.args.delay_minutes <= 120 =>
              tool.result.backup_crew_required = 0

C23_Witness ==
    /\ tool.fn = "crew_scheduling_tool"
    /\ tool.args = [flight_count |-> 3, delay_minutes |-> 200,
                    crew_available |-> 5]
    /\ tool.result.crew_changes_needed
    /\ tool.result.backup_crew_required = 3

\* C24: finance_tool returns hotel_meals_usd = pax_count * 150 whenever
\* hotel_required is true, for every delay_minutes (also below every
\* compensation bucket), and hotel_meals_usd = 0 whenever hotel_required
\* is false.
C24_HotelMeals ==
    tool.fn = "finance_tool" =>
        tool.result.hotel_meals_usd =
            IF tool.args.hotel_required
            THEN tool.args.pax_count * 150
            ELSE 0

C24_Witness ==
    /\ tool.fn = "finance_tool"
    /\ tool.args.delay_minutes = 45
    /\ tool.args.pax_count = 120
    /\ tool.args.hotel_required
    /\ tool.result.compensation_usd = 0
    /\ tool.result.hotel_meals_usd = 18000

\* C25: provided every backend call and every booking search returns or
\* fails, every run eventually returns a result (the monitoring result of
\* the gate, the full plan, or the error result): no agent blocks for
\* ever and no join of a phase waits for ever.
C25_RunReturns ==
    <>(pc = "done" /\ output # Nothing)

C25_Witness ==
    /\ pc = "done"
    /\ "error" \in DOMAIN output
    /\ task["RiskAgent"] = "raised"
    /\ task["RebookingAgent"] = "done"

\* C26: in a disrupted run the delay RebookingAgent plans with (the
\* delay_minutes it passes to the rebooking tool and records in
\* rebooking_plan) equals the duration_minutes RiskAgent writes to
\* risk_assessment in the same run, under every interleaving of the two
\* Phase 1 tasks.
C26_RebookingUsesRiskDuration ==
    ( /\ pc = "join1"
      /\ task["RiskAgent"] = "done"
      /\ task["RebookingAgent"] = "done"
      /\ "duration_minutes" \in DOMAIN state.risk_assessment ) =>
        /\ locals["RebookingAgent"].tool_plan.delay_minutes =
              state.risk_assessment.duration_minutes
        /\ state.rebooking_plan.delay_minutes =
              state.risk_assessment.duration_minutes

\* C27: when run() returns, also with the error result after an agent of
\* a parallel phase raised, no agent task of the run is still executing:
\* the state and the audit_log handed back receive no further write.
C27_NoTaskOutlivesRun ==
    [][ /\ pc' = "done" =>
              \A a \in TaskAgents : task'[a] \notin {"ready", "awaiting"}
        /\ pc = "done" => state' = state
      ]_vars

\* C28: AggregatorAgent derives final_plan.priority from the likelihood
\* by the threshold ladder of _calculate_severity: above 0.8 critical,
\* above 0.6 high, above 0.4 medium, otherwise low; for every likelihood
\* the two functions give the same bucket.
C28_SameLadder ==
    tool.fn = "priority" =>
        /\ tool.result.priority = tool.result.severity
        /\ tool.result.priority =
              IF tool.args.likelihood > 8000 THEN "critical"
              ELSE IF tool.args.likelihood > 6000 THEN "high"
              ELSE IF tool.args.likelihood > 4000 THEN "medium"
              ELSE "low"

\* C29: RiskAgent.run merges its result into risk_assessment without
\* overwriting risk_probability: for every backend response (nothing, or
\* any JSON object, also one that carries a risk_probability key),
\* risk_probability after the run is what it was before, and every key
\* Predictive wrote is still present.
C29_RiskKeepsProbability ==
    [][ (task["RiskAgent"] # "done" /\ task'["RiskAgent"] = "done") =>
            /\ DOMAIN state.risk_assessment
                  \subseteq DOMAIN state'.risk_assessment
            /\ state'.risk_assessment.risk_probability =
                  state.risk_assessment.risk_probability
      ]_vars

ToolAgents == {"RebookingAgent", "FinanceAgent", "CrewAgent"}

ToolResult(a) ==
    IF a = "FinanceAgent" THEN locals[a].tool_estimate
    ELSE locals[a].tool_plan

OutputField(a) ==
    CASE a = "RebookingAgent" -> state.rebooking_plan
      [] a = "FinanceAgent"   -> state.finance_estimate
      [] a = "CrewAgent"      -> state.crew_rotation

\* C30: for RebookingAgent, FinanceAgent and CrewAgent the tool result is
\* authoritative.  When the backend returned nothing, the agent's output
\* field is the tool result; otherwise each key of the output has the
\* backend's value where the backend supplied a non-null one and the
\* tool's value where it omitted the key or supplied null; no key the
\* tool produced is removed.
C30_ToolAuthoritative ==
    \A a \in ToolAgents :
        task[a] \in {"done", "raised"} =>
            /\ DOMAIN ToolResult(a) \subseteq DOMAIN OutputField(a)
            /\ IF llm_results[a] = <<"nothing">>
               THEN OutputField(a) = ToolResult(a)
               ELSE \E v \in ValuesOf(a) :
                       /\ Truthy(v)
                       /\ llm_results[a] = <<v.kind>>
                       /\ OutputField(a) = Update(ToolResult(a), v.d)

============================================================================
